---- MODULE Spec2Model ----
(***************************************************************************)
(* Cflat v0.10: the Environment of src/Cflat.cpp as a state machine.       *)
(*                                                                         *)
(* The state is the Environment: the global namespace's Instance vector,   *)
(* its functions registry, the programs registry, the persistent           *)
(* execution context and the error message.  The operations are the host   *)
(* calls setVariable and load; load is one action that parses the token    *)
(* vector with the recursive-descent parser of the source and evaluates    *)
(* the resulting statements with the tree-walking evaluator.               *)
(*                                                                         *)
(* Source texts are given as lexeme sequences ("\n" marks a line break).   *)
(* Token indices are 0-based as in the source.  Out-of-range token reads   *)
(* yield EndTok.  A Value's buffer is a sequence of integer cells, one per *)
(* builtin/pointer member; pointers are 0 (null) or an Instance address.   *)
(* Undefined behaviour reached by a run is recorded in the ub flag.        *)
(***************************************************************************)
EXTENDS Integers, Sequences, FiniteSets, TLC

VARIABLES mInstances, mFunctions, mPrograms, mExecutionContext, mErrorMessage,
          garbage, last, prev, loads

vars == <<mInstances, mFunctions, mPrograms, mExecutionContext, mErrorMessage,
          garbage, last, prev, loads>>

(***************************************************************************)
(* Bounds                                                                  *)
(***************************************************************************)
MaxLoads == 2
MaxIter == 6
MaxLit == 3

\* size_t(0) - 1 wraps; any index past every token vector stands for it
Npos == 1000000

(***************************************************************************)
(* Lexical tables                                                          *)
(***************************************************************************)
kCflatPunctuation == {".", ",", ":", ";", "->", "(", ")", "{", "}", "[", "]", "::"}

kCflatOperators == {"+", "-", "*", "/", "++", "--", "!", "=", "+=", "-=", "*=", "/=",
                    "==", "!=", ">", "<", ">=", "<=", "&&", "||", "&", "|", "~", "^"}

kCflatAssignmentOperators == {"=", "+=", "-=", "*=", "/="}

kCflatKeywords == {"break", "case", "class", "const", "const_cast", "continue", "default",
                   "delete", "do", "dynamic_cast", "else", "enum", "false", "for", "if",
                   "namespace", "new", "nullptr", "operator", "private", "protected", "public",
                   "reinterpret_cast", "return", "sizeof", "static", "static_cast",
                   "struct", "switch", "this", "true", "typedef", "union", "unsigned",
                   "using", "virtual", "void", "while"}

\* atoi on the numeric lexemes of the bounded inputs
NumStr == <<"0", "1", "2", "3", "4", "5", "6">>

NumLexemes == {NumStr[k] : k \in 1..Len(NumStr)}

atoi(s) == (CHOOSE k \in 1..Len(NumStr) : NumStr[k] = s) - 1

\* mStart[0] of a token: the first character of its lexeme
FirstChar(s) ==
  CASE s \in {"==", "="} -> "="
    [] s \in {"->", "--", "-=", "-"} -> "-"
    [] s \in {"++", "+=", "+"} -> "+"
    [] s \in {"*=", "*"} -> "*"
    [] s \in {"/=", "/"} -> "/"
    [] s \in {"!=", "!"} -> "!"
    [] s \in {">=", ">"} -> ">"
    [] s \in {"<=", "<"} -> "<"
    [] s \in {"&&", "&"} -> "&"
    [] s \in {"||", "|"} -> "|"
    [] s \in {"::", ":"} -> ":"
    [] OTHER -> s

EndTok == [t |-> "End", s |-> "", l |-> 0]

\* Environment::tokenize on a lexeme sequence: recognition order
\* number, punctuation, operator, keyword, identifier; "\n" advances the line
RECURSIVE tokenize(_, _, _)
tokenize(lex, k, line) ==
  IF k > Len(lex) THEN <<>>
  ELSE IF lex[k] = "\n" THEN tokenize(lex, k + 1, line + 1)
  ELSE LET s == lex[k]
           ty == CASE s \in NumLexemes -> "Number"
                   [] s \in kCflatPunctuation -> "Punctuation"
                   [] s \in kCflatOperators -> "Operator"
                   [] s \in kCflatKeywords -> "Keyword"
                   [] OTHER -> "Identifier"
       IN <<[t |-> ty, s |-> s, l |-> line]>> \o tokenize(lex, k + 1, line)

(***************************************************************************)
(* Types, type usages, values                                              *)
(***************************************************************************)
NoType == ""

TypeUsage(base, ptr) == [base |-> base, ptr |-> ptr, ref |-> FALSE, const |-> FALSE]

NullTypeUsage == TypeUsage(NoType, 0)

isPointer(tu) == tu.ptr > 0

isReference(tu) == tu.ref

\* registerBuiltInTypes, and the host's registration of struct Node
\* { int val; Node* next; } with a default constructor
Types ==
  [int   |-> [cat |-> "BuiltIn", size |-> 4, members |-> <<>>, methods |-> <<>>],
   bool  |-> [cat |-> "BuiltIn", size |-> 1, members |-> <<>>, methods |-> <<>>],
   char  |-> [cat |-> "BuiltIn", size |-> 1, members |-> <<>>, methods |-> <<>>],
   short |-> [cat |-> "BuiltIn", size |-> 2, members |-> <<>>, methods |-> <<>>],
   Node  |-> [cat |-> "Struct", size |-> 16,
              members |-> <<[name |-> "val", tu |-> TypeUsage("int", 0), offset |-> 0],
                            [name |-> "next", tu |-> TypeUsage("Node", 1), offset |-> 1]>>,
              methods |-> <<[name |-> "Node", params |-> <<>>]>>]]

getType(name) == IF name \in DOMAIN Types THEN name ELSE NoType

\* number of cells of a Value of this usage
Cells(tu) ==
  IF isPointer(tu) \/ isReference(tu) \/ tu.base = NoType THEN 1
  ELSE IF Types[tu.base].cat = "BuiltIn" THEN 1 ELSE Len(Types[tu.base].members)

isDecimal(base) == base \in {"float", "double"}

isInteger(base) == Types[base].cat = "BuiltIn" /\ ~isDecimal(base)

UninitValue == [tu |-> NullTypeUsage, buf |-> "Uninitialized", cells |-> <<0>>]

\* Value::initOnStack / initOnHeap: a fresh buffer whose content is unspecified (g)
initValue(tu, mode, g) == [tu |-> tu, buf |-> mode, cells |-> [k \in 1..Cells(tu) |-> g]]

\* Value::operator=: an initialized target receives the bytes, an
\* uninitialized one takes over type and buffer of the source
ValueAssign(out, src) ==
  IF out.buf = "Uninitialized" THEN [src EXCEPT !.buf = "External"]
  ELSE [out EXCEPT !.cells = [k \in 1..Len(out.cells) |->
                                 IF k <= Len(src.cells) THEN src.cells[k] ELSE out.cells[k]]]

\* Value::set for a one-cell datum
ValueSet(out, n) == [out EXCEPT !.cells = [out.cells EXCEPT ![1] = n]]

\* TypeUsage::compatibleWith
compatibleWith(a, b) == a.base = b.base /\ a.ptr = b.ptr

assertValueInitialization(tu, out, g) ==
  IF out.buf = "Uninitialized" \/ ~compatibleWith(out.tu, tu) THEN initValue(tu, "Heap", g) ELSE out

(***************************************************************************)
(* Messages                                                                *)
(***************************************************************************)
NoError == [kind |-> "None", line |-> 0, code |-> "", arg |-> ""]

Message(kind, line, code, arg) == [kind |-> kind, line |-> line, code |-> code, arg |-> arg]

(***************************************************************************)
(* Namespace: the Instance vector                                          *)
(***************************************************************************)
\* Namespace::retrieveInstance: index of the last Instance with this name, 0 if none
RECURSIVE retrieveFrom(_, _, _)
retrieveFrom(inst, name, i) ==
  IF i = 0 THEN 0
  ELSE IF inst[i].name = name THEN i ELSE retrieveFrom(inst, name, i - 1)

retrieveInstance(inst, name) == retrieveFrom(inst, name, Len(inst))

\* a variant that pops one Instance only
releaseInstancesOne(inst, level) ==
  IF Len(inst) > 0 /\ inst[Len(inst)].scope >= level
  THEN SubSeq(inst, 1, Len(inst) - 1)
  ELSE inst

\* Namespace::releaseInstances: pop while the back has scope level >= level
RECURSIVE releaseInstances(_, _)
releaseInstances(inst, level) ==
  IF Len(inst) > 0 /\ inst[Len(inst)].scope >= level
  THEN releaseInstances(SubSeq(inst, 1, Len(inst) - 1), level)
  ELSE inst

\* Environment::registerInstance (gen: the load that registered it, 0 for the host)
registerInstance(inst, scope, tu, name, g, gen) ==
  Append(inst, [name |-> name, tu |-> tu, scope |-> scope, gen |-> gen,
                value |-> initValue(tu, IF isReference(tu) THEN "External" ELSE "Stack", g)])

\* Environment::incrementScopeLevel / decrementScopeLevel on a context
incrementScopeLevel(c) == [c EXCEPT !.scope = c.scope + 1]

\* a variant that leaves the scope without releasing its Instances
decrementScopeLevelKeep(c) == [c EXCEPT !.scope = c.scope - 1]

decrementScopeLevel(c) ==
  [c EXCEPT !.inst = releaseInstances(c.inst, c.scope), !.scope = c.scope - 1]

(***************************************************************************)
(* Parser.  A parsing context c carries the token vector ts, the cursor i, *)
(* the error message err (errs keeps every message thrown, in order), the  *)
(* scope level, the global Instance vector inst, the functions registry,   *)
(* the chain log and the ub flag.  Every routine returns [n, c]: the node  *)
(* (Nil for nullptr) and the context it leaves behind.                     *)
(***************************************************************************)
\* the value of an expression in which a result computed once is named:
\* Bind([r \in {e} |-> body]) is body with r standing for e
Bind(f) == f[CHOOSE r \in DOMAIN f : TRUE]

Nil == [k |-> "Nil"]

R(n, c) == [n |-> n, c |-> c]

Tok(c, i) == IF i >= 0 /\ i < Len(c.ts) THEN c.ts[i + 1] ELSE EndTok

\* x - 1u on a size_t
SizeDec(x) == IF x = 0 THEN Npos ELSE x - 1

SetUB(c) == [c EXCEPT !.ub = TRUE]

\* Environment::throwCompileError: the message is assigned, not appended
throwCompileError(c, code, arg) ==
  LET m == Message("Compile", Tok(c, c.i).l, code, arg)
  IN [c EXCEPT !.err = m, !.errs = Append(@, m), !.ub = @ \/ c.i >= Len(c.ts)]

\* Environment::findClosureTokenIndex
RECURSIVE scanClosure(_, _, _, _, _)
scanClosure(c, i, open, close, level) ==
  IF i >= Len(c.ts) THEN 0
  ELSE IF FirstChar(Tok(c, i).s) = close
       THEN IF level = 0 THEN i ELSE scanClosure(c, i + 1, open, close, level - 1)
       ELSE IF FirstChar(Tok(c, i).s) = open
            THEN scanClosure(c, i + 1, open, close, level + 1)
            ELSE scanClosure(c, i + 1, open, close, level)

findClosureTokenIndex(c, open, close) ==
  IF FirstChar(Tok(c, c.i).s) = close THEN c.i
  ELSE scanClosure(c, c.i + 1, open, close, 0)

\* Environment::getTypeUsage(const char*) on "const T*" / "T&" / "T"
getTypeUsage(base, isConst, isPtr, isRef) ==
  [base |-> getType(base), ptr |-> IF isPtr THEN 1 ELSE 0,
   ref |-> (~isPtr /\ isRef), const |-> isConst]

\* Environment::parseTypeUsage (the inputs hold no '::' joined names)
parseTypeUsage(c) ==
  LET name == Tok(c, c.i).s
      type == IF Tok(c, c.i).t = "End" THEN NoType ELSE getType(name)
      isConst == c.i > 0 /\ Tok(c, c.i - 1).s \in {"const", "const_cast"}
      isPtr == FirstChar(Tok(c, c.i + 1).s) = "*"
      isRef == FirstChar(Tok(c, c.i + 1).s) = "&"
  IN IF type # NoType
     THEN [tu |-> getTypeUsage(type, isConst, isPtr, isRef),
           c |-> IF isPtr \/ isRef THEN [c EXCEPT !.i = c.i + 1] ELSE c]
     ELSE [tu |-> NullTypeUsage, c |-> c]

\* Environment::getDefaultConstructor / findMethod: TRUE iff a method is found
RECURSIVE findMethodFrom(_, _, _)
findMethodFrom(methods, name, k) ==
  IF k > Len(methods) THEN FALSE
  ELSE IF methods[k].name = name THEN TRUE ELSE findMethodFrom(methods, name, k + 1)

findMethod(type, name) == findMethodFrom(Types[type].methods, name, 1)

RECURSIVE defaultCtorFrom(_, _, _)
defaultCtorFrom(methods, name, k) ==
  IF k > Len(methods) THEN FALSE
  ELSE IF methods[k].params = <<>> /\ methods[k].name = name THEN TRUE
       ELSE defaultCtorFrom(methods, name, k + 1)

getDefaultConstructor(type) == defaultCtorFrom(Types[type].methods, type, 1)

\* member lookup loop of parseMemberAccessIdentifiers / getInstanceDataValue:
\* index of the first member with this name, 0 if none
RECURSIVE findMember(_, _, _)
findMember(members, name, k) ==
  IF k > Len(members) THEN 0
  ELSE IF members[k].name = name THEN k ELSE findMember(members, name, k + 1)

\* Namespace::getFunction: the first overload registered under the name
hasFunction(funcs, name) == name \in DOMAIN funcs

getFunction(funcs, name) == funcs[name][1]

\* Environment::getTypeUsage(ParsingContext&, Expression*): [tu, ub]
RECURSIVE getTypeUsageExpr(_, _)
getTypeUsageExpr(c, e) ==
  CASE e.k = "Nil" -> [tu |-> NullTypeUsage, ub |-> TRUE]
    [] e.k = "Value" -> [tu |-> e.value.tu, ub |-> FALSE]
    [] e.k = "VariableAccess" ->
         LET ix == retrieveInstance(c.inst, e.id)
         IN IF ix = 0 THEN [tu |-> NullTypeUsage, ub |-> TRUE]
            ELSE [tu |-> c.inst[ix].tu, ub |-> FALSE]
    [] e.k = "BinaryOperation" -> getTypeUsageExpr(c, e.left)
    [] e.k = "Parenthesized" -> getTypeUsageExpr(c, e.e)
    [] e.k = "AddressOf" ->
         LET r == getTypeUsageExpr(c, e.e)
         IN [tu |-> [r.tu EXCEPT !.ptr = @ + 1], ub |-> r.ub]
    [] e.k = "FunctionCall" ->
         IF hasFunction(c.funcs, e.id)
         THEN [tu |-> getFunction(c.funcs, e.id).ret, ub |-> FALSE]
         ELSE [tu |-> NullTypeUsage, ub |-> TRUE]
    [] OTHER -> [tu |-> NullTypeUsage, ub |-> FALSE]

\* parseExpression: the first Operator token at parenthesis level 0 in
\* (tokenIndex, pTokenLastIndex); the level is a uint32_t that a ')' may
\* take below 0 (it then never compares equal to 0 again)
RECURSIVE scanOperator(_, _, _, _)
scanOperator(c, i, lastIx, level) ==
  IF i >= lastIx \/ i >= Len(c.ts) THEN 0
  ELSE IF Tok(c, i).t = "Operator" /\ level = 0 THEN i
  ELSE IF FirstChar(Tok(c, i).s) = "(" THEN scanOperator(c, i + 1, lastIx, level + 1)
  ELSE IF FirstChar(Tok(c, i).s) = ")" THEN scanOperator(c, i + 1, lastIx, level - 1)
  ELSE scanOperator(c, i + 1, lastIx, level)

\* a variant that splits at the last operator at parenthesis level 0
RECURSIVE scanOperatorLast(_, _, _, _, _)
scanOperatorLast(c, i, lastIx, level, found) ==
  IF i >= lastIx \/ i >= Len(c.ts) THEN found
  ELSE IF Tok(c, i).t = "Operator" /\ level = 0
       THEN scanOperatorLast(c, i + 1, lastIx, level, i)
  ELSE IF FirstChar(Tok(c, i).s) = "(" THEN scanOperatorLast(c, i + 1, lastIx, level + 1, found)
  ELSE IF FirstChar(Tok(c, i).s) = ")" THEN scanOperatorLast(c, i + 1, lastIx, level - 1, found)
  ELSE scanOperatorLast(c, i + 1, lastIx, level, found)

findOperatorLast(c, lastIx) ==
  scanOperatorLast(c, c.i + 1, lastIx, IF FirstChar(Tok(c, c.i).s) = "(" THEN 1 ELSE 0, 0)

findOperator(c, lastIx) ==
  scanOperator(c, c.i + 1, lastIx, IF FirstChar(Tok(c, c.i).s) = "(" THEN 1 ELSE 0)

RECURSIVE parseExpression(_, _)
RECURSIVE parseStatement(_)
RECURSIVE parseBlockLoop(_, _)
RECURSIVE parseParameters(_, _, _)
RECURSIVE parseArgumentsLoop(_, _)
RECURSIVE parseMemberAccessLoop(_, _, _, _)

\* a variant that mixes up the two errors
memberAccessErrorSwapped(typeUsage, ptrMemberAccess) ==
  IF isPointer(typeUsage)
  THEN IF ~ptrMemberAccess THEN "InvalidMemberAccessOperatorNonPtr" ELSE ""
  ELSE IF ptrMemberAccess THEN "InvalidMemberAccessOperatorPtr" ELSE ""

\* Environment::parseMemberAccessIdentifiers, the test of the access operator
\* against the receiver's type: the error to throw, "" if none
memberAccessError(typeUsage, ptrMemberAccess) ==
  IF isPointer(typeUsage)
  THEN IF ~ptrMemberAccess THEN "InvalidMemberAccessOperatorPtr" ELSE ""
  ELSE IF ptrMemberAccess THEN "InvalidMemberAccessOperatorNonPtr" ELSE ""

\* Environment::parseMemberAccessIdentifiers: [ids, ops, c]
parseMemberAccessLoop(c, ids, ops, tu) ==
  Bind([t \in {[name |-> Tok(c, c.i).s,
                memberAccess |-> FirstChar(Tok(c, c.i + 1).s) = ".",
                ptrMemberAccess |-> Tok(c, c.i + 1).s = "->",
                call |-> FirstChar(Tok(c, c.i + 1).s) = "(",
                isStruct |-> tu.base # NoType /\ Types[tu.base].cat # "BuiltIn"]} |->
  Bind([s \in {[ids |-> Append(ids, t.name),
                ops |-> Append(ops, IF t.memberAccess THEN "."
                                    ELSE IF t.ptrMemberAccess THEN "->" ELSE ""),
                ix |-> retrieveInstance(c.inst, t.name),
                mx |-> IF t.isStruct THEN findMember(Types[tu.base].members, t.name, 1)
                       ELSE 0]} |->
    IF Len(s.ids) = 1 /\ s.ix = 0 THEN [ids |-> s.ids, ops |-> s.ops, c |-> SetUB(c)]
    ELSE IF Len(s.ids) > 1 /\ ~t.call /\ ~t.isStruct
         THEN [ids |-> s.ids, ops |-> s.ops, c |-> SetUB(c)]
    ELSE IF Len(s.ids) > 1 /\ ~t.call /\ s.mx = 0
         THEN [ids |-> s.ids, ops |-> s.ops, c |-> throwCompileError(c, "MissingMember", t.name)]
    ELSE
      Bind([tu2 \in {IF Len(s.ids) = 1 THEN c.inst[s.ix].value.tu
                     ELSE IF ~t.call THEN Types[tu.base].members[s.mx].tu
                     ELSE NullTypeUsage} |->
      Bind([error \in {memberAccessError(tu2, t.ptrMemberAccess)} |->
        IF error # ""
        THEN [ids |-> s.ids, ops |-> s.ops, c |-> throwCompileError(c, error, t.name)]
        ELSE IF t.memberAccess \/ t.ptrMemberAccess
             THEN parseMemberAccessLoop([c EXCEPT !.i = @ + 2], s.ids, s.ops, tu2)
             ELSE [ids |-> s.ids, ops |-> s.ops, c |-> [c EXCEPT !.i = @ + 1]]])])])])

\* the identifiers and access operators of the chain as written, up to the
\* first identifier that no '.' or '->' follows
RECURSIVE chainText(_, _)
chainText(c, i) ==
  Bind([op \in {Tok(c, i + 1).s} |->
    IF op \in {".", "->"} /\ i + 2 < Len(c.ts)
    THEN <<[id |-> Tok(c, i).s, op |-> op]>> \o chainText(c, i + 2)
    ELSE <<[id |-> Tok(c, i).s, op |-> ""]>>])

parseMemberAccessIdentifiers(c) ==
  Bind([r \in {parseMemberAccessLoop(c, <<>>, <<>>, NullTypeUsage)} |->
  Bind([ix \in {retrieveInstance(c.inst, Tok(c, c.i).s)} |->
    [ids |-> r.ids,
     c |-> [r.c EXCEPT !.log =
              Append(@, [ids |-> r.ids, ops |-> r.ops, line |-> Tok(c, c.i).l,
                         text |-> chainText(c, c.i),
                         tu0 |-> IF ix = 0 THEN NullTypeUsage ELSE c.inst[ix].tu,
                         thrown |-> SubSeq(r.c.errs, Len(c.errs) + 1, Len(r.c.errs)),
                         ub |-> r.c.ub])]]])])

\* Environment::parseFunctionCallArguments: [args, c]
parseArgumentsLoop(c, args) ==
  IF FirstChar(Tok(c, c.i).s) = ")" \/ Tok(c, c.i).t = "End"
  THEN [args |-> args, c |-> [c EXCEPT !.i = @ + 1, !.ub = @ \/ Tok(c, c.i).t = "End"]]
  ELSE
    Bind([c1 \in {[c EXCEPT !.i = @ + 1]} |->
    Bind([closure \in {findClosureTokenIndex(c1, " ", ")")} |->
    Bind([separator \in {findClosureTokenIndex(c1, " ", ",")} |->
    Bind([a \in {parseExpression(c1, SizeDec(IF separator > 0 /\ separator < closure
                                             THEN separator ELSE closure))} |->
      IF a.n # Nil
      THEN parseArgumentsLoop([a.c EXCEPT !.i = @ + 1], Append(args, a.n))
      ELSE parseArgumentsLoop(a.c, args)])])])])

parseFunctionCallArguments(c) == parseArgumentsLoop(c, <<>>)

\* name of the operator method looked up on a non-builtin left operand
operatorMethodName(op) ==
  CASE op = "+" -> "operator+" [] op = "-" -> "operator-"
    [] op = "*" -> "operator*" [] op = "/" -> "operator/"
    [] OTHER -> "operator"

LiteralValue(n) == [tu |-> TypeUsage("int", 0), buf |-> "Heap", cells |-> <<n>>]

\* parseExpression, a single token
parseExpressionToken(c, token) ==
  CASE token.t = "Number" -> R([k |-> "Value", value |-> LiteralValue(atoi(token.s))], c)
    [] token.t = "Identifier" ->
         IF retrieveInstance(c.inst, token.s) # 0
         THEN R([k |-> "VariableAccess", id |-> token.s], c)
         ELSE R(Nil, throwCompileError(c, "UndefinedVariable", token.s))
    [] token.t = "Keyword" /\ token.s = "nullptr" -> R([k |-> "NullPointer"], c)
    [] OTHER -> R(Nil, c)

\* parseExpression, binary operator at token op: everything right of the
\* first operator is the right operand
parseExpressionBinary(c, lastIx, op) ==
  Bind([l \in {parseExpression(c, op - 1)} |->
  Bind([t \in {getTypeUsageExpr(l.c, l.n)} |->
    IF t.ub \/ t.tu.base = NoType THEN R(Nil, SetUB(l.c))
    ELSE IF Types[t.tu.base].cat # "BuiltIn" /\
            ~findMethod(t.tu.base, operatorMethodName(Tok(c, op).s))
    THEN R(Nil, throwCompileError(l.c, "InvalidOperator", t.tu.base))
    ELSE Bind([r \in {parseExpression([l.c EXCEPT !.i = op + 1], lastIx)} |->
           R([k |-> "BinaryOperation", left |-> l.n, right |-> r.n, op |-> Tok(c, op).s,
              line |-> Tok(c, op).l], r.c)])])])

\* parseExpression, an expression led by an identifier
parseExpressionIdentifier(c, token, nextToken) ==
  IF FirstChar(nextToken.s) = "(" THEN
    Bind([a \in {parseFunctionCallArguments([c EXCEPT !.i = @ + 1])} |->
      R([k |-> "FunctionCall", id |-> token.s, args |-> a.args], a.c)])
  ELSE IF FirstChar(nextToken.s) = "." \/ nextToken.s = "->" THEN
    Bind([m \in {parseMemberAccessIdentifiers(c)} |->
      R([k |-> "MemberAccess", ids |-> m.ids], m.c)])
  ELSE R(Nil, c)

\* Environment::parseExpression
parseExpression(c, lastIx) ==
  Bind([token \in {Tok(c, c.i)} |->
    IF lastIx - c.i + 1 = 1 THEN parseExpressionToken(c, token)
    ELSE
      Bind([op \in {findOperator(c, lastIx)} |->
        IF op = 0 /\ c.i + 1 < lastIx /\ lastIx > Len(c.ts) THEN
          \* the operator scan ran past the end of the token vector
          R(Nil, SetUB(c))
        ELSE IF op > 0 THEN parseExpressionBinary(c, lastIx, op)
        ELSE IF FirstChar(token.s) = "(" THEN
          Bind([closure \in {findClosureTokenIndex(c, "(", ")")} |->
          Bind([e \in {parseExpression([c EXCEPT !.i = @ + 1], SizeDec(closure))} |->
            R([k |-> "Parenthesized", e |-> e.n], [e.c EXCEPT !.i = closure + 1])])])
        ELSE IF token.t = "Identifier"
        THEN parseExpressionIdentifier(c, token, Tok(c, c.i + 1))
        ELSE IF token.t = "Operator" /\ FirstChar(token.s) = "&" THEN
          Bind([c1 \in {[c EXCEPT !.i = @ + 1]} |->
          Bind([semi \in {SizeDec(findClosureTokenIndex(c1, " ", ";"))} |->
          Bind([e \in {parseExpression(c1, IF lastIx < semi THEN lastIx ELSE semi)} |->
            R([k |-> "AddressOf", e |-> e.n], e.c)])])])
        ELSE R(Nil, c)])])

\* the expression that ends before the next ';'
parseExpressionToSemicolon(c) ==
  parseExpression(c, SizeDec(findClosureTokenIndex(c, " ", ";")))

\* Environment::parseStatementBlock (the Statement's mLine stays 0 unless
\* parseStatement sets it)
parseBlockLoop(c, stmts) ==
  IF FirstChar(Tok(c, c.i).s) = "}" THEN [stmts |-> stmts, c |-> c]
  ELSE IF c.i >= Len(c.ts) THEN [stmts |-> stmts, c |-> SetUB(c)]
  ELSE Bind([r \in {parseStatement([c EXCEPT !.i = @ + 1])} |->
         parseBlockLoop(r.c, IF r.n # Nil THEN Append(stmts, r.n) ELSE stmts)])

parseStatementBlock(c) ==
  IF FirstChar(Tok(c, c.i).s) # "{" THEN R(Nil, c)
  ELSE Bind([b \in {parseBlockLoop(incrementScopeLevel(c), <<>>)} |->
         R([k |-> "Block", line |-> 0, stmts |-> b.stmts], decrementScopeLevel(b.c))])

\* parameter loop of parseStatementFunctionDeclaration: [types, ids, c]
parseParameters(c, types, ids) ==
  IF FirstChar(Tok(c, c.i).s) = ")"
  THEN [types |-> types, ids |-> ids, c |-> [c EXCEPT !.i = @ + 1]]
  ELSE IF c.i >= Len(c.ts) THEN [types |-> types, ids |-> ids, c |-> SetUB(c)]
  ELSE IF FirstChar(Tok(c, c.i + 1).s) = ")"
       THEN [types |-> types, ids |-> ids, c |-> [c EXCEPT !.i = @ + 2]]
  ELSE Bind([pt \in {parseTypeUsage([c EXCEPT !.i = @ + 1])} |->
       Bind([name \in {Tok(pt.c, pt.c.i + 1).s} |->
         parseParameters(
           [pt.c EXCEPT !.i = @ + 2,
                        !.inst = registerInstance(@, pt.c.scope + 1, pt.tu, name,
                                                  pt.c.g, pt.c.gen)],
           Append(types, pt.tu), Append(ids, name))])])

\* Environment::parseStatementFunctionDeclaration
parseStatementFunctionDeclaration(c) ==
  Bind([ps \in {parseParameters([c EXCEPT !.i = @ + 1], <<>>, <<>>)} |->
  Bind([body \in {parseStatementBlock(ps.c)} |->
    R([k |-> "FunctionDeclaration", line |-> 0,
       ret |-> getTypeUsage(Tok(c, c.i - 1).s, FALSE, FALSE, FALSE), id |-> Tok(c, c.i).s,
       paramTypes |-> ps.types, paramIds |-> ps.ids, body |-> body.n], body.c)])])

\* Environment::parseStatementAssignment
parseStatementAssignment(c, op) ==
  Bind([l \in {parseExpression(c, op - 1)} |->
  Bind([r \in {parseExpressionToSemicolon([l.c EXCEPT !.i = op + 1])} |->
    R([k |-> "Assignment", line |-> 0, left |-> l.n, right |-> r.n, op |-> Tok(c, op).s],
      r.c)])])

\* the condition in parentheses that leads an if or a while: [n, c, closure]
parseCondition(c) ==
  Bind([c1 \in {[c EXCEPT !.i = @ + 1]} |->
  Bind([closure \in {findClosureTokenIndex(c1, "(", ")")} |->
  Bind([cond \in {parseExpression(c1, SizeDec(closure))} |->
    [n |-> cond.n, c |-> [cond.c EXCEPT !.i = closure + 1]]])])])

\* Environment::parseStatementIf
parseStatementIf(c) ==
  IF FirstChar(Tok(c, c.i).s) # "(" THEN R(Nil, c)
  ELSE
    Bind([cond \in {parseCondition(c)} |->
    Bind([then \in {parseStatement(cond.c)} |->
    Bind([c2 \in {[then.c EXCEPT !.i = @ + 1]} |->
    Bind([else \in {IF Tok(c2, c2.i).t = "Keyword" /\ Tok(c2, c2.i).s = "else"
                    THEN parseStatement([c2 EXCEPT !.i = @ + 1]) ELSE R(Nil, c2)} |->
      R([k |-> "If", line |-> 0, cond |-> cond.n, then |-> then.n, else |-> else.n],
        else.c)])])])])

\* Environment::parseStatementWhile
parseStatementWhile(c) ==
  IF FirstChar(Tok(c, c.i).s) # "(" THEN R(Nil, c)
  ELSE
    Bind([cond \in {parseCondition(c)} |->
    Bind([body \in {parseStatement(cond.c)} |->
      R([k |-> "While", line |-> 0, cond |-> cond.n, body |-> body.n], body.c)])])

\* Environment::parseStatementFor
parseStatementFor(c) ==
  IF FirstChar(Tok(c, c.i).s) # "(" THEN R(Nil, c)
  ELSE
    Bind([c1 \in {[incrementScopeLevel(c) EXCEPT !.i = @ + 1]} |->
    Bind([initClosure \in {findClosureTokenIndex(c1, " ", ";")} |->
    Bind([init \in {parseStatement(c1)} |->
    Bind([c2 \in {[init.c EXCEPT !.i = initClosure + 1]} |->
    Bind([condClosure \in {findClosureTokenIndex(c2, " ", ";")} |->
    Bind([cond \in {parseExpression(c2, SizeDec(condClosure))} |->
    Bind([c3 \in {[cond.c EXCEPT !.i = condClosure + 1]} |->
    Bind([incClosure \in {findClosureTokenIndex(c3, "(", ")")} |->
    Bind([inc \in {parseStatement(c3)} |->
    Bind([body \in {parseStatement([inc.c EXCEPT !.i = incClosure + 1])} |->
      R([k |-> "For", line |-> 0, init |-> init.n, cond |-> cond.n, inc |-> inc.n,
         body |-> body.n], decrementScopeLevel(body.c))])])])])])])])])])])

\* Environment::parseStatementBreak / parseStatementContinue
parseStatementJump(c, kind, word) ==
  IF FirstChar(Tok(c, c.i).s) # ";" THEN R(Nil, throwCompileError(c, "UnexpectedSymbol", word))
  ELSE R([k |-> kind, line |-> 0], c)

\* Environment::parseStatementReturn
parseStatementReturn(c) ==
  Bind([e \in {parseExpressionToSemicolon(c)} |->
    R([k |-> "Return", line |-> 0, e |-> e.n], e.c)])

\* parseStatement, identifier branch: the scan for an assignment operator
\* at parenthesis level 0 before the next ';'
RECURSIVE scanAssignment(_, _, _)
scanAssignment(c, cursor, level) ==
  IF cursor >= Len(c.ts) \/ FirstChar(Tok(c, cursor).s) = ";" THEN 0
  ELSE Bind([t \in {Tok(c, cursor + 1)} |->
         IF t.t = "Operator" /\ level = 0 /\ t.s \in kCflatAssignmentOperators THEN cursor + 1
         ELSE scanAssignment(c, cursor + 1,
                IF FirstChar(t.s) = "(" THEN level + 1
                ELSE IF FirstChar(t.s) = ")" THEN level - 1 ELSE level)])

WithLine(r, line) == IF r.n = Nil THEN r ELSE R([r.n EXCEPT !.line = line], r.c)

\* a variant that never finds an existing Instance
isRedefinitionNever(c, identifier) == FALSE

\* parseStatement, variable declaration: the existing-Instance test
isRedefinition(c, identifier) == retrieveInstance(c.inst, identifier) # 0

\* the StatementVariableDeclaration and the Instance registered with it
declaration(c, typeUsage, identifier, init) ==
  R([k |-> "VariableDeclaration", line |-> 0, tu |-> typeUsage, id |-> identifier,
     init |-> init],
    [c EXCEPT !.inst = registerInstance(@, c.scope, typeUsage, identifier, c.g, c.gen)])

\* parseStatement, variable declaration (nextToken is '=' or ';')
declareVariable(c2, typeUsage, identifier) ==
  IF isRedefinition(c2, identifier)
  THEN R(Nil, throwCompileError(c2, "VariableRedefinition", identifier))
  ELSE IF FirstChar(Tok(c2, c2.i).s) = "=" THEN
    Bind([e \in {parseExpressionToSemicolon([c2 EXCEPT !.i = @ + 1])} |->
      declaration(e.c, typeUsage, identifier, e.n)])
  ELSE IF Types[typeUsage.base].cat # "BuiltIn" /\ ~isPointer(typeUsage) /\
          ~getDefaultConstructor(typeUsage.base)
  THEN R(Nil, throwCompileError(c2, "NoDefaultConstructor", typeUsage.base))
  ELSE declaration(c2, typeUsage, identifier, Nil)

\* number of Instances of a name
countInstances(inst, name) == Cardinality({i \in 1..Len(inst) : inst[i].name = name})

\* the same, keeping a record of the declaration: whether the name was that
\* of an Instance of the current scope level, what was thrown, and whether
\* an Instance of that name was registered
parseVariableDeclaration(c2, typeUsage, identifier) ==
  Bind([r \in {declareVariable(c2, typeUsage, identifier)} |->
    R(r.n,
      [r.c EXCEPT !.decls =
         Append(@, [id |-> identifier, line |-> Tok(c2, c2.i).l,
                    sameScope |-> \E i \in 1..Len(c2.inst) :
                                    c2.inst[i].name = identifier /\ c2.inst[i].scope = c2.scope,
                    thrown |-> SubSeq(r.c.errs, Len(c2.errs) + 1, Len(r.c.errs)),
                    registered |-> countInstances(r.c.inst, identifier) >
                                   countInstances(c2.inst, identifier)])])])

\* parseStatement, a statement led by a type name
parseDeclaration(c, typeUsage, cT) ==
  Bind([identifier \in {Tok(cT, cT.i + 1).s} |->
  Bind([c2 \in {[cT EXCEPT !.i = @ + 2]} |->
  Bind([nextToken \in {Tok(c2, c2.i)} |->
    IF nextToken.t \notin {"Operator", "Punctuation"}
    THEN R(Nil, throwCompileError(c2, "UnexpectedSymbol", Tok(c, c.i).s))
    ELSE IF FirstChar(nextToken.s) = "=" \/ FirstChar(nextToken.s) = ";"
    THEN parseVariableDeclaration(c2, typeUsage, identifier)
    ELSE IF FirstChar(nextToken.s) = "("
    THEN parseStatementFunctionDeclaration([c2 EXCEPT !.i = @ - 1])
    ELSE R(Nil, c2)])])])

\* parseStatement, an identifier followed by punctuation: a function call,
\* or a member access that a method call may follow
parseIdentifierPunctuation(c, token, nextToken) ==
  IF FirstChar(nextToken.s) = "(" THEN
    Bind([a \in {parseFunctionCallArguments([c EXCEPT !.i = @ + 1])} |->
      R([k |-> "Expression", line |-> 0,
         e |-> [k |-> "FunctionCall", id |-> token.s, args |-> a.args]], a.c)])
  ELSE
    Bind([m \in {parseExpressionToSemicolon(c)} |->
      IF m.n = Nil THEN m
      ELSE IF FirstChar(Tok(m.c, m.c.i).s) = "(" THEN
        Bind([a \in {parseFunctionCallArguments(m.c)} |->
          R([k |-> "Expression", line |-> 0,
             e |-> [k |-> "MethodCall", access |-> m.n, args |-> a.args]], a.c)])
      ELSE R([k |-> "Expression", line |-> 0, e |-> m.n], m.c)])

\* parseStatement, an identifier followed by an operator: ++ or --
parseIdentifierOperator(c, token, nextToken) ==
  Bind([ix \in {retrieveInstance(c.inst, token.s)} |->
    IF ix = 0 THEN R(Nil, throwCompileError(c, "UndefinedVariable", token.s))
    ELSE IF nextToken.s \in {"++", "--"} THEN
      IF c.inst[ix].tu.base # NoType /\ isInteger(c.inst[ix].tu.base)
      THEN R([k |-> IF nextToken.s = "++" THEN "Increment" ELSE "Decrement",
              line |-> 0, id |-> token.s], [c EXCEPT !.i = @ + 2])
      ELSE R(Nil, throwCompileError(c, "NonIntegerValue", token.s))
    ELSE R(Nil, c)])

\* parseStatement, a statement led by an identifier that names no type
parseIdentifierStatement(c) ==
  Bind([token \in {Tok(c, c.i)} |->
  Bind([op \in {scanAssignment(c, c.i, 0)} |->
  Bind([nextToken \in {Tok(c, c.i + 1)} |->
    IF op > 0 THEN parseStatementAssignment(c, op)
    ELSE IF nextToken.t = "Punctuation" THEN parseIdentifierPunctuation(c, token, nextToken)
    ELSE IF nextToken.t = "Operator" THEN parseIdentifierOperator(c, token, nextToken)
    ELSE R(Nil, throwCompileError(IF c.i + 1 >= Len(c.ts) THEN SetUB(c) ELSE c,
                                  "UnexpectedSymbol", token.s))])])])

\* parseStatement, a statement led by a keyword
parseKeywordStatement(c, token) ==
  CASE token.s = "if" -> parseStatementIf([c EXCEPT !.i = @ + 1])
    [] token.s = "while" -> parseStatementWhile([c EXCEPT !.i = @ + 1])
    [] token.s = "for" -> parseStatementFor([c EXCEPT !.i = @ + 1])
    [] token.s = "break" -> parseStatementJump([c EXCEPT !.i = @ + 1], "Break", "break")
    [] token.s = "continue" -> parseStatementJump([c EXCEPT !.i = @ + 1], "Continue", "continue")
    [] token.s = "void" -> parseStatementFunctionDeclaration([c EXCEPT !.i = @ + 1])
    [] token.s = "return" -> parseStatementReturn([c EXCEPT !.i = @ + 1])
    [] OTHER -> R(Nil, c)

\* Environment::parseStatement
parseStatement(c) ==
  Bind([token \in {Tok(c, c.i)} |->
    WithLine(
      CASE token.t = "Punctuation" ->
             IF FirstChar(token.s) = "{" THEN parseStatementBlock(c) ELSE R(Nil, c)
        [] token.t = "Keyword" -> parseKeywordStatement(c, token)
        [] token.t = "Identifier" ->
             Bind([pt \in {parseTypeUsage(c)} |->
               IF pt.tu.base # NoType THEN parseDeclaration(c, pt.tu, pt.c)
               ELSE parseIdentifierStatement(c)])
        [] token.t = "End" -> R(Nil, SetUB(c))
        [] OTHER -> R(Nil, c),
      token.l)])

\* Environment::parse: the top-level loop stops at the first error message
RECURSIVE parseLoop(_, _)
parseLoop(c, stmts) ==
  IF c.i >= Len(c.ts) THEN [stmts |-> stmts, c |-> c]
  ELSE Bind([r \in {parseStatement(c)} |->
       Bind([ss \in {IF r.n # Nil THEN Append(stmts, r.n) ELSE stmts} |->
         IF r.c.err # NoError THEN [stmts |-> ss, c |-> r.c]
         ELSE parseLoop([r.c EXCEPT !.i = @ + 1], ss)])])

parse(c) == parseLoop([c EXCEPT !.i = 0], <<>>)

(***************************************************************************)
(* Evaluator.  An execution context x carries the global Instance vector   *)
(* inst, the functions registry, mScopeLevel, mCurrentLine, mJumpStatement,*)
(* mErrorMessage (err) and mReturnValue (ret).  History kept for the       *)
(* properties: errs (every runtime error thrown by this load, with the     *)
(* line of the operator that raised it), ranAfter (a statement started     *)
(* after an error of this load was thrown), exits (how the Blocks and Fors *)
(* were left), leak, ub, hang (the iteration budget ran out).              *)
(***************************************************************************)
V(v, x) == [v |-> v, x |-> x]

\* an Instance's buffer address; 0 is the null pointer
Addr(ix, off) == ix * 8 + off

AddrIx(a) == a \div 8

AddrOff(a) == a % 8

ValidAddr(inst, a) ==
  a > 0 /\ AddrIx(a) \in 1..Len(inst) /\ AddrOff(a) < Len(inst[AddrIx(a)].value.cells)

\* (intN_t)v for the 1- and 2-byte types; 4-byte values stay within range
\* for the bounded inputs
Narrow(v, size) ==
  CASE size = 1 -> ((v + 128) % 256) - 128
    [] size = 2 -> ((v + 32768) % 65536) - 32768
    [] OTHER -> v

\* C++ integer division truncates toward zero
TruncDiv(a, b) ==
  LET q == (IF a < 0 THEN -a ELSE a) \div (IF b < 0 THEN -b ELSE b)
  IN IF (a < 0) = (b < 0) THEN q ELSE -q

\* a variant that does not narrow
setValueAsIntegerWide(n, out) == ValueSet(out, n)

\* Environment::getValueAsInteger / setValueAsInteger
getValueAsInteger(v) == Narrow(v.cells[1], Types[v.tu.base].size)

setValueAsInteger(n, out) == ValueSet(out, Narrow(n, Types[out.tu.base].size))

\* CflatRetrieveValue(&value, bool): the first byte of the buffer
RetrieveBool(v) == v.cells[1] % 256 # 0

RECURSIVE getValue(_, _, _)
RECURSIVE execute(_, _)
RECURSIVE executeBlock(_, _, _)
RECURSIVE whileLoop(_, _, _)
RECURSIVE forLoop(_, _, _)
RECURSIVE getArgumentValues(_, _, _, _)
RECURSIVE bindArguments(_, _, _, _)
RECURSIVE memberWalk(_, _, _, _, _)

\* Environment::throwRuntimeError: the message carries mCurrentLine
throwRuntimeError(x, code, arg, at) ==
  Bind([m \in {Message("Runtime", x.line, code, arg)} |->
    [x EXCEPT !.err = m, !.errs = Append(@, [msg |-> m, at |-> at])]])

\* memcpy of cells into an Instance's buffer
WriteCells(inst, ix, off, cells) ==
  [inst EXCEPT ![ix].value.cells =
     [k \in 1..Len(@) |-> IF k > off /\ k - off <= Len(cells) THEN cells[k - off] ELSE @[k]]]

\* Environment::getAddressOfValue for the buffer at address a
getAddressOfValue(x, tu, a, out) ==
  ValueSet(assertValueInitialization([tu EXCEPT !.ptr = @ + 1], out, x.g), a)

\* a variant that writes the negation
boolResultInverted(x, out, t) ==
  V(ValueSet(assertValueInitialization(TypeUsage("bool", 0), out, x.g), IF t THEN 0 ELSE 1), x)

\* applyBinaryOperator, a comparison or logical operator: the bool written
boolResult(x, out, t) ==
  V(ValueSet(assertValueInitialization(TypeUsage("bool", 0), out, x.g), IF t THEN 1 ELSE 0), x)

\* applyBinaryOperator on integers a and b; o is the initialized *pOutValue
applyIntegerOperator(x, a, b, op, out, o, at) ==
  CASE op = "==" -> boolResult(x, out, a = b)
    [] op = "!=" -> boolResult(x, out, a # b)
    [] op = "<" -> boolResult(x, out, a < b)
    [] op = ">" -> boolResult(x, out, a > b)
    [] op = "<=" -> boolResult(x, out, a <= b)
    [] op = ">=" -> boolResult(x, out, a >= b)
    [] op = "&&" -> boolResult(x, out, a # 0 /\ b # 0)
    [] op = "||" -> boolResult(x, out, a # 0 \/ b # 0)
    [] op = "+" -> V(setValueAsInteger(a + b, o), x)
    [] op = "-" -> V(setValueAsInteger(a - b, o), x)
    [] op = "*" -> V(setValueAsInteger(a * b, o), x)
    [] op = "/" -> IF b # 0 THEN V(setValueAsInteger(TruncDiv(a, b), o), x)
                   ELSE V(o, throwRuntimeError(x, "DivisionByZero", "", at))
    [] OTHER -> V(out, x)

\* Environment::applyBinaryOperator; at is the source line of the operator
applyBinaryOperator(x, l, r, op, out, at) ==
  IF l.buf = "Uninitialized" \/ l.tu.base = NoType THEN V(out, SetUB(x))
  ELSE IF Types[l.tu.base].cat # "BuiltIn" THEN V(out, SetUB(x))
  ELSE IF r.buf = "Uninitialized" \/ r.tu.base = NoType THEN V(out, SetUB(x))
  ELSE applyIntegerOperator(x, getValueAsInteger(l), getValueAsInteger(r), op, out,
                            assertValueInitialization(l.tu, out, x.g), at)

\* getInstanceDataValue, one member m of the struct at address base
memberStep(x, ids, i, m, a2) ==
  IF ~ValidAddr(x.inst, a2)
  THEN [tu |-> m.tu, a |-> a2, ok |-> FALSE, x |-> SetUB(x)]
  ELSE IF isPointer(m.tu) /\ x.inst[AddrIx(a2)].value.cells[AddrOff(a2) + 1] = 0
  THEN [tu |-> m.tu, a |-> a2, ok |-> TRUE,
        x |-> throwRuntimeError(x, "NullPointerAccess", m.name, 0)]
  ELSE memberWalk(x, ids, i + 1, m.tu, a2)

\* Environment::getInstanceDataValue: the type and address [tu, a, ok] of the
\* data an expression designates, with the context it leaves
memberWalk(x, ids, i, tu, a) ==
  IF i > Len(ids) THEN [tu |-> tu, a |-> a, ok |-> TRUE, x |-> x]
  ELSE IF tu.base = NoType \/ Types[tu.base].cat = "BuiltIn"
  THEN [tu |-> tu, a |-> a, ok |-> FALSE, x |-> SetUB(x)]
  ELSE
    Bind([mx \in {findMember(Types[tu.base].members, ids[i], 1)} |->
      IF mx = 0 THEN [tu |-> tu, a |-> a, ok |-> TRUE, x |-> x]
      ELSE memberStep(x, ids, i, Types[tu.base].members[mx],
                      (IF isPointer(tu) THEN x.inst[AddrIx(a)].value.cells[AddrOff(a) + 1]
                       ELSE a) + Types[tu.base].members[mx].offset)])

\* getInstanceDataValue of a member access whose first identifier is Instance ix
memberAccessValue(x, e, ix, v) ==
  IF isPointer(v.tu) /\ v.cells[1] = 0
  THEN [tu |-> v.tu, a |-> Addr(ix, 0), ok |-> TRUE,
        x |-> throwRuntimeError(x, "NullPointerAccess", e.ids[1], 0)]
  ELSE IF isPointer(v.tu) /\ ~ValidAddr(x.inst, v.cells[1])
  THEN [tu |-> v.tu, a |-> Addr(ix, 0), ok |-> FALSE, x |-> SetUB(x)]
  ELSE memberWalk(x, e.ids, 2, v.tu, Addr(ix, 0))

getInstanceDataValue(x, e) ==
  CASE e.k = "Nil" -> [tu |-> NullTypeUsage, a |-> 0, ok |-> FALSE, x |-> SetUB(x)]
    [] e.k = "VariableAccess" ->
         Bind([ix \in {retrieveInstance(x.inst, e.id)} |->
           IF ix = 0 THEN [tu |-> NullTypeUsage, a |-> 0, ok |-> FALSE, x |-> SetUB(x)]
           ELSE [tu |-> x.inst[ix].value.tu, a |-> Addr(ix, 0), ok |-> TRUE, x |-> x]])
    [] e.k = "MemberAccess" ->
         Bind([ix \in {retrieveInstance(x.inst, e.ids[1])} |->
           IF ix = 0 THEN [tu |-> NullTypeUsage, a |-> 0, ok |-> FALSE, x |-> SetUB(x)]
           ELSE memberAccessValue(x, e, ix, x.inst[ix].value)])
    [] OTHER -> [tu |-> NullTypeUsage, a |-> 0, ok |-> FALSE, x |-> x]

\* how a Block or For is being left, and whether an Instance of its level survived
noteExit(x, level) ==
  [x EXCEPT !.exits = @ \cup {CASE x.jump = "Break" -> "break"
                                [] x.jump = "Continue" -> "continue"
                                [] x.jump = "Return" -> "return"
                                [] x.errs # <<>> -> "error"
                                [] OTHER -> "normal"},
            !.leak = @ \/ \E i \in 1..Len(x.inst) : x.inst[i].scope >= level]

\* Environment::getArgumentValues: [vals, x].  A value parameter receives a
\* Heap copy of an External Value.  A reference parameter keeps an External
\* Value, which the model represents by the address of the buffer it
\* borrows (an Instance's, 0 for a literal's); a Value that owns its buffer
\* is reset and then set from the buffer it has released
getArgumentValues(x, params, args, vals) ==
  IF Len(vals) = Len(args) THEN [vals |-> vals, x |-> x]
  ELSE IF Len(vals) >= Len(params) THEN [vals |-> vals, x |-> SetUB(x)]
  ELSE Bind([r \in {getValue(x, args[Len(vals) + 1], UninitValue)} |->
         IF ~isReference(params[Len(vals) + 1])
         THEN getArgumentValues(r.x, params, args,
                Append(vals, IF r.v.buf = "External" THEN [r.v EXCEPT !.buf = "Heap"] ELSE r.v))
         ELSE getArgumentValues([r.x EXCEPT !.ub = @ \/ r.v.buf # "External"], params, args,
                Append(vals, [r.v EXCEPT !.tu.ref = TRUE, !.buf = "External",
                                         !.cells = <<IF args[Len(vals) + 1].k = "VariableAccess"
                                                     THEN Addr(retrieveInstance(r.x.inst,
                                                                 args[Len(vals) + 1].id), 0)
                                                     ELSE 0>>]))])

\* the closure of a script function, argument binding: each parameter
\* Instance is registered one scope level above the caller's and set from
\* the argument's buffer; Value::set on a reference-typed Value writes the
\* address of that buffer into the Instance's own buffer
bindArguments(x, f, vals, i) ==
  IF i > Len(vals) THEN x
  ELSE Bind([inst \in {registerInstance(x.inst, x.scope + 1, f.params[i], f.ids[i],
                                        x.g, x.gen)} |->
         bindArguments(
           [x EXCEPT !.inst = [inst EXCEPT ![Len(inst)].value =
                                 IF isReference(f.params[i]) THEN ValueSet(@, vals[i].cells[1])
                                 ELSE ValueAssign(@, vals[i])],
                     !.regs = @ + 1,
                     !.ub = @ \/ vals[i].buf = "Uninitialized"],
           f, vals, i + 1)])

\* the end of a script function's closure: x2 is the context after the body
returnFromFunction(x2, f, out) ==
  IF f.ret.base = NoType THEN V(out, [x2 EXCEPT !.jump = "None"])
  ELSE IF x2.ret.buf = "Uninitialized" THEN V(out, [x2 EXCEPT !.jump = "None", !.ub = TRUE])
  ELSE V(ValueAssign(assertValueInitialization(x2.ret.tu, out, x2.g), x2.ret),
         [x2 EXCEPT !.jump = "None"])

\* Function::execute of a script function (the lambda of execute,
\* FunctionDeclaration)
callFunction(x, f, vals, out) ==
  IF f.body = Nil \/ Len(f.params) # Len(vals) THEN V(out, SetUB(x))
  ELSE returnFromFunction(
         execute(bindArguments([x EXCEPT !.ub = @ \/ x.progs[f.owner] # f.gen,
                                         !.stale = @ \/ x.progs[f.owner] # f.gen],
                               f, vals, 1),
                 f.body),
         f, out)

\* getValue of a function call whose arguments a have been evaluated from x
getFunctionCallValue(x, f, a, out) ==
  IF a.x.ub /\ ~x.ub THEN V(out, a.x) ELSE callFunction(a.x, f, a.vals, out)

\* getValue of a method call on the data d
getMethodCallValue(x, e, d, out) ==
  IF d.x.err # NoError THEN V(out, d.x)
  ELSE IF ~d.ok \/ d.tu.base = NoType THEN V(out, SetUB(d.x))
  ELSE IF Types[d.tu.base].cat = "BuiltIn" \/
          ~findMethod(d.tu.base, e.access.ids[Len(e.access.ids)])
  THEN V(out, SetUB(d.x))
  ELSE V(out, [d.x EXCEPT !.ret = initValue(NullTypeUsage, "Heap", x.g)])

\* Environment::getValue: the value written to *pOutValue, and the context
getValue(x, e, out) ==
  CASE e.k = "Nil" -> V(out, SetUB(x))
    [] e.k = "Value" -> V(ValueAssign(out, e.value), x)
    [] e.k = "NullPointer" ->
         IF out.buf = "Uninitialized" THEN V(out, SetUB(x)) ELSE V(ValueSet(out, 0), x)
    [] e.k = "VariableAccess" ->
         Bind([ix \in {retrieveInstance(x.inst, e.id)} |->
           IF ix = 0 THEN V(out, SetUB(x)) ELSE V(ValueAssign(out, x.inst[ix].value), x)])
    [] e.k = "BinaryOperation" ->
         Bind([l \in {getValue(x, e.left, UninitValue)} |->
         Bind([r \in {getValue(l.x, e.right, UninitValue)} |->
           applyBinaryOperator(r.x, l.v, r.v, e.op, out, e.line)])])
    [] e.k = "Parenthesized" -> getValue(x, e.e, out)
    [] e.k = "AddressOf" ->
         IF e.e.k = "Nil" THEN V(out, SetUB(x))
         ELSE IF e.e.k = "VariableAccess"
         THEN Bind([ix \in {retrieveInstance(x.inst, e.e.id)} |->
                IF ix = 0 THEN V(out, SetUB(x))
                ELSE V(getAddressOfValue(x, x.inst[ix].value.tu, Addr(ix, 0), out), x)])
         ELSE V(out, x)
    [] e.k = "FunctionCall" ->
         IF ~hasFunction(x.funcs, e.id) THEN V(out, SetUB(x))
         ELSE Bind([f \in {getFunction(x.funcs, e.id)} |->
                getFunctionCallValue(x, f, getArgumentValues(x, f.params, e.args, <<>>), out)])
    [] e.k = "MethodCall" -> getMethodCallValue(x, e, getInstanceDataValue(x, e.access), out)
    [] OTHER -> V(out, x)

\* TypeUsage::getSize, in bytes
getSize(tu) ==
  IF isPointer(tu) \/ isReference(tu) THEN 8
  ELSE IF tu.base = NoType THEN 0 ELSE Types[tu.base].size

\* a variant in which every assignment operator copies
performAssignmentAlways(x, v, op, d) ==
  IF v.buf = "Uninitialized" \/ ~d.ok \/ ~ValidAddr(x.inst, d.a) THEN SetUB(x)
  ELSE [x EXCEPT !.inst = WriteCells(@, AddrIx(d.a), AddrOff(d.a), v.cells)]

\* Environment::performAssignment: only "=" copies, and it copies the bytes of
\* the right value: more bytes than the target's storage has are written
\* past it (ub), fewer replace the low bytes of the target (four bytes
\* copied to a pointer: the model's addresses have no higher bytes set)
performAssignment(x, v, op, d) ==
  IF op # "=" THEN x
  ELSE IF v.buf = "Uninitialized" \/ ~d.ok \/ ~ValidAddr(x.inst, d.a) THEN SetUB(x)
  ELSE IF getSize(v.tu) > getSize(d.tu) THEN SetUB(x)
  ELSE IF getSize(v.tu) < getSize(d.tu)
  THEN [x EXCEPT !.inst[AddrIx(d.a)].value.cells[AddrOff(d.a) + 1] =
          IF getSize(v.tu) >= 4 THEN v.cells[1]
          ELSE @ - (@ % (256 ^ getSize(v.tu))) + (v.cells[1] % (256 ^ getSize(v.tu)))]
  ELSE [x EXCEPT !.inst = WriteCells(@, AddrIx(d.a), AddrOff(d.a), v.cells)]

executeBlock(x, stmts, i) ==
  IF i > Len(stmts) THEN x
  ELSE Bind([x1 \in {execute(x, stmts[i])} |->
         IF x1.jump # "None" \/ x1.hang THEN x1 ELSE executeBlock(x1, stmts, i + 1)])

\* one iteration of a while or for loop: the context before the body
enterIteration(x) ==
  [x EXCEPT !.fuel = @ - 1, !.jump = IF @ = "Continue" THEN "None" ELSE @]

\* a variant that leaves the loop after one iteration, the condition not
\* being evaluated again
whileLoopOnce(x, s, cv) ==
  IF cv.buf = "Uninitialized" THEN SetUB(x)
  ELSE IF ~RetrieveBool(cv) THEN x
  ELSE IF x.fuel = 0 THEN [x EXCEPT !.hang = TRUE]
  ELSE Bind([x2 \in {execute(enterIteration(x), s.body)} |->
         IF x2.jump = "Break" THEN [x2 EXCEPT !.jump = "None"] ELSE x2])

whileLoop(x, s, cv) ==
  IF cv.buf = "Uninitialized" THEN SetUB(x)
  ELSE IF ~RetrieveBool(cv) THEN x
  ELSE IF x.fuel = 0 THEN [x EXCEPT !.hang = TRUE]
  ELSE Bind([x2 \in {execute(enterIteration(x), s.body)} |->
         IF x2.hang \/ (x2.ub /\ ~x.ub) THEN x2
         ELSE IF x2.jump = "Break" THEN [x2 EXCEPT !.jump = "None"]
         ELSE Bind([c \in {getValue(x2, s.cond, cv)} |-> whileLoop(c.x, s, c.v)])])

forLoop(x, s, cv) ==
  IF cv.buf = "Uninitialized" THEN SetUB(x)
  ELSE IF ~RetrieveBool(cv) THEN x
  ELSE IF x.fuel = 0 THEN [x EXCEPT !.hang = TRUE]
  ELSE Bind([x2 \in {execute(enterIteration(x), s.body)} |->
         IF x2.hang \/ (x2.ub /\ ~x.ub) THEN x2
         ELSE IF x2.jump = "Break" THEN [x2 EXCEPT !.jump = "None"]
         ELSE Bind([x3 \in {IF s.inc # Nil THEN execute(x2, s.inc) ELSE x2} |->
              Bind([c \in {IF s.cond # Nil THEN getValue(x3, s.cond, cv) ELSE V(cv, x3)} |->
                forLoop(c.x, s, c.v)])])])

\* the host's Node(): val = 0, next = nullptr
defaultCtor(v) == [v EXCEPT !.cells = [k \in 1..Len(@) |-> 0]]

\* execute, VariableDeclaration: x2 is the context with the Instance
\* registered as the last of the vector
executeVariableDeclaration(x2, s, ix) ==
  IF s.init # Nil THEN
    Bind([r \in {getValue(x2, s.init, x2.inst[ix].value)} |->
    Bind([x3 \in {[r.x EXCEPT !.ub = @ \/ r.x.regs > x2.regs]} |->
      IF ix <= Len(x3.inst) THEN [x3 EXCEPT !.inst[ix].value = r.v] ELSE SetUB(x3)])])
  ELSE IF Types[s.tu.base].cat # "BuiltIn" /\ ~isPointer(s.tu)
  THEN IF getDefaultConstructor(s.tu.base)
       THEN [x2 EXCEPT !.inst[ix].value = defaultCtor(@)]
       ELSE SetUB(x2)
  ELSE x2

\* execute, FunctionDeclaration: Namespace::registerFunction
registerFunction(x, s, f) ==
  [x EXCEPT !.funcs = IF hasFunction(@, s.id)
                      THEN [@ EXCEPT ![s.id] = Append(@, f)]
                      ELSE [n \in DOMAIN x.funcs \cup {s.id} |->
                              IF n = s.id THEN <<f>> ELSE x.funcs[n]]]

\* execute, If
executeIf(s, c) ==
  IF c.v.buf = "Uninitialized" THEN SetUB(c.x)
  ELSE IF RetrieveBool(c.v) THEN execute(c.x, s.then)
  ELSE IF s.else # Nil THEN execute(c.x, s.else)
  ELSE c.x

\* execute, For
executeFor(x, s) ==
  Bind([x3 \in {IF s.init # Nil THEN execute(incrementScopeLevel(x), s.init)
                ELSE incrementScopeLevel(x)} |->
  Bind([true \in {[tu |-> TypeUsage("bool", 0), buf |-> "Heap", cells |-> <<1>>]} |->
  Bind([c \in {IF s.cond # Nil THEN getValue(x3, s.cond, true) ELSE V(true, x3)} |->
  Bind([x4 \in {forLoop(c.x, s, c.v)} |->
    noteExit(decrementScopeLevel(x4), x4.scope)])])])])

\* Environment::execute(ExecutionContext&, Statement*), x1 being the context
\* with mCurrentLine set
executeStatement(x1, s) ==
  CASE s.k = "Expression" -> getValue(x1, s.e, UninitValue).x
    [] s.k = "Block" ->
         Bind([b \in {executeBlock(incrementScopeLevel(x1), s.stmts, 1)} |->
           noteExit(decrementScopeLevel(b), b.scope)])
    [] s.k = "VariableDeclaration" ->
         Bind([inst \in {registerInstance(x1.inst, x1.scope, s.tu, s.id, x1.g, x1.gen)} |->
           executeVariableDeclaration([x1 EXCEPT !.inst = inst, !.regs = @ + 1], s,
                                      Len(inst))])
    [] s.k = "FunctionDeclaration" ->
         registerFunction(x1, s, [ret |-> s.ret, params |-> s.paramTypes, ids |-> s.paramIds,
                                  body |-> s.body, owner |-> x1.prog, gen |-> x1.gen])
    [] s.k = "Assignment" ->
         Bind([d \in {getInstanceDataValue(x1, s.left)} |->
         Bind([r \in {getValue(d.x, s.right, UninitValue)} |->
           performAssignment(r.x, r.v, s.op, d)])])
    [] s.k \in {"Increment", "Decrement"} ->
         Bind([ix \in {retrieveInstance(x1.inst, s.id)} |->
           IF ix = 0 THEN SetUB(x1)
           ELSE [x1 EXCEPT !.inst[ix].value =
                   setValueAsInteger(getValueAsInteger(@) +
                                     (IF s.k = "Increment" THEN 1 ELSE -1), @)]])
    [] s.k = "If" -> executeIf(s, getValue(x1, s.cond, UninitValue))
    [] s.k = "While" ->
         Bind([c \in {getValue(x1, s.cond, UninitValue)} |-> whileLoop(c.x, s, c.v)])
    [] s.k = "For" -> executeFor(x1, s)
    [] s.k = "Break" -> [x1 EXCEPT !.jump = "Break"]
    [] s.k = "Continue" -> [x1 EXCEPT !.jump = "Continue"]
    [] s.k = "Return" ->
         IF s.e # Nil
         THEN Bind([r \in {getValue(x1, s.e, x1.ret)} |->
                [r.x EXCEPT !.ret = r.v, !.jump = "Return"]])
         ELSE [x1 EXCEPT !.jump = "Return"]
    [] OTHER -> x1

execute(x, s) ==
  IF s.k = "Nil" THEN SetUB(x)
  ELSE executeStatement([x EXCEPT !.line = s.line, !.ranAfter = @ \/ x.errs # <<>>], s)

\* Environment::execute(ExecutionContext&, const Program&)
RECURSIVE executeProgram(_, _, _)
executeProgram(x, stmts, i) ==
  IF i > Len(stmts) THEN x
  ELSE Bind([x1 \in {execute(x, stmts[i])} |->
         IF x1.err # NoError \/ x1.hang THEN x1 ELSE executeProgram(x1, stmts, i + 1)])

(***************************************************************************)
(* Source texts the host loads, as lexeme sequences                        *)
(***************************************************************************)
Catalogue ==
  [Arith |-> <<"int", "a", "=", "2", ";", "\n", "int", "b", "=", "3", ";", "\n",
               "int", "c", "=", "a", "+", "b", "*", "2", ";">>,
   Redef |-> <<"int", "a", "=", "1", ";", "\n", "int", "a", "=", "2", ";">>,
   BlockDiv |-> <<"int", "x", "=", "0", ";", "\n", "{", "\n",
                  "int", "t", "=", "1", "/", "x", ";", "\n", "x", "=", "5", ";", "\n", "}">>,
   TwoErr |-> <<"{", "\n", "int", "a", "=", "u", ";", "\n", "int", "b", "=", "w", ";", "\n", "}">>,
   WhileDiv |-> <<"int", "i", "=", "1", ";", "\n", "while", "(", "1", "/", "i", ")", "\n",
                  "{", "\n", "i", "=", "i", "-", "1", ";", "\n", "}">>,
   FuncDiv |-> <<"int", "f", "(", ")", "{", "return", "0", ";", "}", "\n",
                 "int", "q", "=", "6", "/", "f", "(", ")", ";">>,
   LoopJump |-> <<"int", "n", "=", "0", ";", "\n", "while", "(", "n", "<", "3", ")", "\n",
                  "{", "\n", "n", "++", ";", "\n", "int", "t", "=", "n", ";", "\n",
                  "if", "(", "n", "==", "2", ")", "break", ";", "else", "continue", ";", "\n",
                  "}">>,
   Call |-> <<"int", "g", "(", "int", "k", ")", "{", "int", "u", "=", "k", ";",
              "return", "u", ";", "}", "\n", "g", "(", "4", ")", ";">>,
   For |-> <<"for", "(", "int", "i", "=", "0", ";", "i", "<", "2", ";", "i", "++", ")", "\n",
             "{", "\n", "int", "t", "=", "i", ";", "\n", "}">>,
   NullRhs |-> <<"Node", "*", "p", "=", "nullptr", ";", "\n", "int", "q", "=", "p", "->", "val", ";">>,
   NullLhs |-> <<"Node", "*", "p", "=", "nullptr", ";", "\n", "p", "->", "val", "=", "3", ";">>,
   PtrDot |-> <<"Node", "n", ";", "\n", "Node", "*", "p", "=", "&", "n", ";", "\n",
                "p", ".", "val", "=", "1", ";">>,
   ValArrow |-> <<"Node", "n", ";", "\n", "n", "->", "val", "=", "1", ";">>,
   ChainPtr |-> <<"Node", "n", ";", "\n", "n", ".", "next", ".", "val", "=", "1", ";">>,
   ChainOk |-> <<"Node", "n", ";", "\n", "n", ".", "next", "->", "val", "=", "1", ";">>,
   Member |-> <<"Node", "n", ";", "\n", "n", ".", "val", "=", "3", ";">>]

\* the program name each text is loaded under
ProgramName(p) == IF p \in {"Call", "FuncDiv"} THEN "lib" ELSE "main"

\* values the host gives its variable h
HostValues == {1}

\* values the stack and heap memory may hold before it is written
Garbage == {0, 5}

(***************************************************************************)
(* Environment::load                                                       *)
(***************************************************************************)
NoLoad ==
  [p |-> "", name |-> "", ret |-> TRUE, hang |-> FALSE, ub |-> FALSE, cerrs |-> <<>>,
   rerrs |-> <<>>, log |-> <<>>, decls |-> <<>>, exits |-> {}, leak |-> FALSE, ranAfter |-> FALSE,
   pre |-> <<>>, iters |-> 0, fresh |-> TRUE, staleCall |-> FALSE]

\* load: the parsing context of a load; reading a destroyed Program's
\* statements while replacing it is undefined
parsingContext(name, src) ==
  [ts |-> tokenize(src, 1, 1), funcs |-> mFunctions, i |-> 0, err |-> NoError,
   errs |-> <<>>, scope |-> 0, inst |-> mInstances,
   ub |-> name \in DOMAIN mPrograms /\ mPrograms[name].stmts # <<>>,
   log |-> <<>>, decls |-> <<>>, g |-> garbage, gen |-> loads + 1]

\* load: mPrograms[pProgramName] = program
registerProgram(name, stmts) ==
  [n \in DOMAIN mPrograms \cup {name} |->
     IF n = name THEN [stmts |-> stmts, gen |-> loads + 1] ELSE mPrograms[n]]

\* load: mExecutionContext as execute(mExecutionContext, program) receives it,
\* after releaseInstances(0u); c is the context the parse left
startContext(name, c, progs) ==
  [inst |-> releaseInstances(c.inst, 0), funcs |-> mFunctions,
   progs |-> [n \in DOMAIN progs |-> progs[n].gen], prog |-> name, gen |-> loads + 1,
   scope |-> mExecutionContext.scope, line |-> 0, jump |-> "None",
   err |-> mExecutionContext.err, ret |-> mExecutionContext.ret,
   errs |-> <<>>, ranAfter |-> FALSE, exits |-> {}, leak |-> FALSE,
   ub |-> c.ub, hang |-> FALSE, fuel |-> MaxIter, g |-> garbage, regs |-> 0,
   stale |-> FALSE]

\* what a load of text p under name recorded while parsing
loadRecord(name, p, c) ==
  [NoLoad EXCEPT !.p = p, !.name = name, !.cerrs = c.errs, !.log = c.log,
                 !.decls = c.decls, !.pre = mInstances,
                 !.fresh = name \notin DOMAIN mPrograms]

\* load returning false on a compile error, before releaseInstances(0u)
loadFailed(c, progs, rec) ==
  [inst |-> c.inst, funcs |-> mFunctions, progs |-> progs, ctx |-> mExecutionContext,
   msg |-> c.err, rec |-> [rec EXCEPT !.ret = FALSE, !.ub = c.ub]]

\* load after execute(mExecutionContext, program) left the context x
loadExecuted(x, progs, rec) ==
  [inst |-> x.inst, funcs |-> x.funcs, progs |-> progs,
   ctx |-> [scope |-> x.scope, err |-> x.err, ret |-> x.ret],
   msg |-> x.err,
   rec |-> [rec EXCEPT !.ret = (x.err = NoError /\ ~x.hang), !.hang = x.hang,
                       !.ub = x.ub, !.rerrs = x.errs, !.exits = x.exits,
                       !.leak = x.leak, !.ranAfter = x.ranAfter,
                       !.iters = MaxIter - x.fuel, !.staleCall = x.stale]]

\* the Environment after load(name, src) and the record of the call.
\* stale: the statements left in the destroyed Program's vector are kept
load(name, src, stale, p) ==
  Bind([pr \in {parse(parsingContext(name, src))} |->
  Bind([progs \in {registerProgram(name, (IF stale THEN mPrograms[name].stmts ELSE <<>>)
                                           \o pr.stmts)} |->
    IF pr.c.err # NoError THEN loadFailed(pr.c, progs, loadRecord(name, p, pr.c))
    ELSE loadExecuted(executeProgram(startContext(name, pr.c, progs), progs[name].stmts, 1),
                      progs, loadRecord(name, p, pr.c))])])

(***************************************************************************)
(* The host's calls                                                        *)
(***************************************************************************)
Init ==
  /\ mInstances = <<>>
  /\ mFunctions = <<>>
  /\ mPrograms = <<>>
  /\ mExecutionContext = [scope |-> 0, err |-> NoError, ret |-> UninitValue]
  /\ mErrorMessage = NoError
  /\ garbage \in Garbage
  /\ last = NoLoad
  /\ prev = NoLoad
  /\ loads = 0

\* Namespace::setVariable of the int variable h
SetVariable(v) ==
  /\ ~last.hang
  /\ \E ix \in {retrieveInstance(mInstances, "h")} :
     \E inst \in {IF ix = 0
                  THEN registerInstance(mInstances, 0, TypeUsage("int", 0), "h", garbage, 0)
                  ELSE mInstances} :
        mInstances' = [inst EXCEPT ![IF ix = 0 THEN Len(inst) ELSE ix].value =
                         ValueSet(initValue(TypeUsage("int", 0), "Heap", garbage), v)]
  /\ UNCHANGED <<mFunctions, mPrograms, mExecutionContext, mErrorMessage, garbage,
                 last, prev, loads>>

Load(p, stale) ==
  /\ ~last.hang
  /\ loads < MaxLoads
  /\ stale => (ProgramName(p) \in DOMAIN mPrograms /\ mPrograms[ProgramName(p)].stmts # <<>>)
  /\ \E r \in {load(ProgramName(p), Catalogue[p], stale, p)} :
        /\ mInstances' = r.inst
        /\ mFunctions' = r.funcs
        /\ mPrograms' = r.progs
        /\ mExecutionContext' = r.ctx
        /\ mErrorMessage' = r.msg
        /\ last' = r.rec
  /\ prev' = last
  /\ loads' = loads + 1
  /\ UNCHANGED garbage

Next ==
  \/ \E v \in HostValues : SetVariable(v)
  \/ \E p \in DOMAIN Catalogue, stale \in BOOLEAN : Load(p, stale)

Spec == Init /\ [][Next]_vars

(***************************************************************************)
(* A single load of  int a = x; int b = y; int c = a op1 b op2 z;  for     *)
(* every choice of the operands and of the two operators                   *)
(***************************************************************************)
ArithmeticOperators == {"+", "-", "*", "/"}

ExprProgram(e) ==
  <<"int", "a", "=", NumStr[e.x + 1], ";", "\n", "int", "b", "=", NumStr[e.y + 1], ";", "\n",
    "int", "c", "=", "a", e.op1, "b", e.op2, NumStr[e.z + 1], ";">>

InitExpr ==
  /\ mInstances = <<>>
  /\ mFunctions = <<>>
  /\ mPrograms = <<>>
  /\ mExecutionContext = [scope |-> 0, err |-> NoError, ret |-> UninitValue]
  /\ mErrorMessage = NoError
  /\ garbage \in Garbage
  /\ \E x \in 0..MaxLit, y \in 0..MaxLit, z \in 0..MaxLit,
        op1 \in ArithmeticOperators, op2 \in ArithmeticOperators :
        last = [NoLoad EXCEPT !.p = [x |-> x, op1 |-> op1, y |-> y, op2 |-> op2, z |-> z]]
  /\ prev = NoLoad
  /\ loads = 0

LoadExpr ==
  /\ loads = 0
  /\ \E r \in {load("main", ExprProgram(last.p), FALSE, last.p)} :
        /\ mInstances' = r.inst
        /\ mFunctions' = r.funcs
        /\ mPrograms' = r.progs
        /\ mExecutionContext' = r.ctx
        /\ mErrorMessage' = r.msg
        /\ last' = r.rec
  /\ prev' = last
  /\ loads' = loads + 1
  /\ UNCHANGED garbage

NextExpr == LoadExpr

SpecExpr == InitExpr /\ [][NextExpr]_vars

(***************************************************************************)
(* Loads of programs with loops and jumps, for every literal n             *)
(***************************************************************************)
ControlCatalogue(n) ==
  [ForBreak |-> <<"for", "(", "int", "i", "=", "0", ";", "i", "<", "5", ";",
                  "i", "=", "i", "+", "1", ")", "\n",
                  "{", "\n", "if", "(", "i", "==", NumStr[n + 1], ")", "break", ";", "\n", "}">>,
   WhileCount |-> <<"int", "i", "=", "0", ";", "\n", "while", "(", "i", "<", NumStr[n + 1], ")", "\n",
                    "{", "\n", "i", "=", "i", "+", "1", ";", "\n", "}">>,
   ForContinue |-> <<"int", "a", "=", "0", ";", "\n", "{", "\n",
                     "for", "(", "int", "k", "=", "0", ";", "k", "<", NumStr[n + 1], ";",
                     "k", "++", ")", "continue", ";", "\n",
                     "a", "=", "1", ";", "\n", "}">>,
   WhileReturn |-> <<"int", "g", "=", "0", ";", "\n",
                     "int", "f", "(", ")", "{", "while", "(", "g", "<", NumStr[n + 1], ")",
                     "{", "g", "++", ";", "return", "2", ";", "}", "}", "\n",
                     "int", "r", "=", "f", "(", ")", ";">>]

ControlPrograms == {"ForBreak", "WhileCount", "ForContinue", "WhileReturn"}

LoadControl(p, n) ==
  /\ ~last.hang
  /\ loads < MaxLoads
  /\ \E r \in {load(p, ControlCatalogue(n)[p], FALSE, [prog |-> p, n |-> n])} :
        /\ mInstances' = r.inst
        /\ mFunctions' = r.funcs
        /\ mPrograms' = r.progs
        /\ mExecutionContext' = r.ctx
        /\ mErrorMessage' = r.msg
        /\ last' = r.rec
  /\ prev' = last
  /\ loads' = loads + 1
  /\ UNCHANGED garbage

NextControl == \E p \in ControlPrograms, n \in 0..MaxLit : LoadControl(p, n)

SpecControl == Init /\ [][NextControl]_vars

(***************************************************************************)
(* Loads of  T y = 0; { T x = v; y = x; }  for the integer types T and     *)
(* the spellings of their values v                                         *)
(***************************************************************************)
\* a value as the source text writes it, and the number it denotes
Literal(n) == [text |-> <<NumStr[n + 1]>>, val |-> n]

AssignValues(T) ==
  IF T = "bool"
  THEN {[text |-> <<"false">>, val |-> 0], [text |-> <<"true">>, val |-> 1],
        Literal(0), Literal(1)}
  ELSE {Literal(n) : n \in 0..MaxLit} \cup {[text |-> <<"-", "1">>, val |-> -1]}

AssignProgram(T, v) ==
  <<T, "y", "=", "0", ";", "\n", "{", "\n", T, "x", "=">> \o v.text \o
  <<";", "\n", "y", "=", "x", ";", "\n", "}">>

LoadAssign(T, v) ==
  /\ ~last.hang
  /\ loads < MaxLoads
  /\ \E r \in {load("main", AssignProgram(T, v), FALSE, [T |-> T, v |-> v])} :
        /\ mInstances' = r.inst
        /\ mFunctions' = r.funcs
        /\ mPrograms' = r.progs
        /\ mExecutionContext' = r.ctx
        /\ mErrorMessage' = r.msg
        /\ last' = r.rec
  /\ prev' = last
  /\ loads' = loads + 1
  /\ UNCHANGED garbage

NextAssign == \E T \in {"int", "short", "char", "bool"} : \E v \in AssignValues(T) : LoadAssign(T, v)

SpecAssign == Init /\ [][NextAssign]_vars

(***************************************************************************)
(* Scripts with two parameters a and b in 0..MaxLit, each loaded by a      *)
(* fresh Environment                                                       *)
(***************************************************************************)
\* ty: the builtin types the parameters number
ScriptCatalogue(a, b) ==
  Bind([ty \in {[n \in 0..(MaxLit + 1) |-> <<"char", "short", "int">>[(n % 3) + 1]]} |->
    [Assign |-> <<ty[a], "x", "=", "0", ";", "\n", "int", "w", "=", "2", ";", "\n",
                  ty[b], "v", "=", "1", ";", "\n", "x", "=", "v", ";">>,
     Shadow |-> <<"int", "r", "=", "0", ";", "\n", "int", "a", "=", NumStr[a + 1], ";", "\n",
                  "{", "\n", "int", "a", "=", NumStr[b + 1], ";", "\n",
                  "r", "=", "a", ";", "\n", "}">>,
     ByValue |-> <<"int", "a", "=", NumStr[a + 1], ";", "\n", "int", "r", "=", "0", ";", "\n",
                   "int", "f", "(", "int", "k", ")", "\n",
                   "{", "\n", "k", "=", NumStr[b + 1], ";", "\n", "return", "k", ";", "\n", "}", "\n",
                   "r", "=", "f", "(", "a", ")", ";">>,
     ByRef |-> <<"int", "a", "=", NumStr[a + 1], ";", "\n", "int", "r", "=", "6", ";", "\n",
                 "int", "f", "(", "int", "&", "k", ")", "\n",
                 "{", "\n", "k", "=", NumStr[b + 1], ";", "\n", "return", "0", ";", "\n", "}", "\n",
                 "r", "=", "f", "(", "a", ")", ";">>,
     Logic |-> <<"int", "g", "=", "0", ";", "\n", "int", "r", "=", "0", ";", "\n",
                 "int", "h", "(", ")", "\n",
                 "{", "\n", "g", "=", "g", "+", "1", ";", "\n",
                 "return", "0", ";", "\n", "}", "\n",
                 "int", "f", "(", ")", "\n",
                 "{", "\n", "g", "=", "g", "*", "2", ";", "\n",
                 "return", NumStr[b + 1], ";", "\n", "}", "\n",
                 "r", "=", "(", NumStr[(a % 2) + 1], "+", "h", "(", ")", ")",
                 IF a < 2 THEN "&&" ELSE "||", "f", "(", ")", ";">>,
     Arith |-> <<ty[a], "x", "=", "6", ";", "\n", ty[a], "y", "=", NumStr[(b % 4) + 4], ";", "\n",
                 "int", "p", "=", "x", "*", "x", ";", "\n",
                 "int", "q", "=", "p", "*", "y", ";", "\n",
                 "int", "d", "=", "q", "/", "y", ";", "\n",
                 "int", "s", "=", "q", "-", "p", ";", "\n",
                 "int", "u", "=", "q", "+", "q", ";", "\n",
                 "int", "w", "=", "q", "*", "q", ";", "\n",
                 "int", "c", "=", "q", "<", "y", ";", "\n",
                 "int", "e", "=", "q", "&&", "y", ";">>,
     Compound |-> <<"int", "g", "=", "0", ";", "\n", "int", "x", "=", "2", ";", "\n",
                    "int", "w", "=", "3", ";", "\n",
                    "int", "f", "(", ")", "\n",
                    "{", "\n", "g", "=", "1", ";", "\n",
                    "return", NumStr[a + 1], ";", "\n", "}", "\n",
                    "x", <<"+=", "-=", "*=", "/=">>[(b % 4) + 1], "f", "(", ")", ";">>,
     Chain |-> <<"Node", "n", ";", "\n", "Node", "*", "p", "=", "&", "n", ";", "\n">> \o
               (IF a % 2 = 0 THEN <<"n", ".">> ELSE <<"p", "->">>) \o
               <<<<"val", "=", "1", ";">>, <<"next", "=", "nullptr", ";">>,
                 <<"next", "->", "val", "=", "1", ";">>>>[(b % 3) + 1]]])

LoadScript(p, a, b) ==
  /\ loads = 0
  /\ \E r \in {load("main", ScriptCatalogue(a, b)[p], FALSE, [prog |-> p, a |-> a, b |-> b])} :
        /\ mInstances' = r.inst
        /\ mFunctions' = r.funcs
        /\ mPrograms' = r.progs
        /\ mExecutionContext' = r.ctx
        /\ mErrorMessage' = r.msg
        /\ last' = r.rec
  /\ prev' = last
  /\ loads' = 1
  /\ UNCHANGED garbage

NextScript ==
  \E p \in DOMAIN ScriptCatalogue(0, 0) : \E a \in 0..MaxLit, b \in 0..MaxLit : LoadScript(p, a, b)

SpecScript == Init /\ [][NextScript]_vars

(***************************************************************************)
(* The Instance vector under scope entry and exit, registerInstance and    *)
(* the host's setVariable (the host calls while no scope is open: an       *)
(* Environment is not reentrant)                                           *)
(***************************************************************************)
MaxDepth == 2

MaxInst == 3

\* Environment::incrementScopeLevel on mExecutionContext
EnterScope ==
  /\ mExecutionContext.scope < MaxDepth
  /\ mExecutionContext' = [mExecutionContext EXCEPT !.scope = @ + 1]
  /\ UNCHANGED <<mInstances, mFunctions, mPrograms, mErrorMessage, garbage, last, prev, loads>>

\* Environment::registerInstance at the scope level of mExecutionContext
RegisterInstance(name) ==
  /\ Len(mInstances) < MaxInst
  /\ mInstances' = registerInstance(mInstances, mExecutionContext.scope, TypeUsage("int", 0),
                                    name, garbage, 0)
  /\ UNCHANGED <<mFunctions, mPrograms, mExecutionContext, mErrorMessage, garbage, last, prev,
                 loads>>

\* Environment::decrementScopeLevel on mExecutionContext: releaseInstances of
\* the level left; last keeps the vector and the level of the call
ExitScope ==
  /\ mExecutionContext.scope > 0
  /\ mInstances' = releaseInstances(mInstances, mExecutionContext.scope)
  /\ mExecutionContext' = [mExecutionContext EXCEPT !.scope = @ - 1]
  /\ last' = [NoLoad EXCEPT !.pre = mInstances, !.p = [level |-> mExecutionContext.scope]]
  /\ UNCHANGED <<mFunctions, mPrograms, mErrorMessage, garbage, prev, loads>>

NextRelease ==
  \/ EnterScope
  \/ \E name \in {"a", "b"} : RegisterInstance(name)
  \/ ExitScope
  \/ \E v \in HostValues : mExecutionContext.scope = 0 /\ Len(mInstances) < MaxInst /\ SetVariable(v)

SpecRelease == Init /\ [][NextRelease]_vars

(***************************************************************************)
(* Environment::preprocess and Environment::tokenize on characters.  A     *)
(* text is a sequence of characters; reading the position after its last   *)
(* character yields the terminator "NUL", reading further is undefined     *)
(* (ub).  The texts are written with the characters a ; / * # and the line *)
(* break: no digit, no quote and no letter that begins a keyword, so the   *)
(* branches of tokenize for strings, numbers and keywords are not reached  *)
(* and are left out.                                                       *)
(***************************************************************************)
MaxText == 5

At(code, c) == IF c < Len(code) THEN code[c + 1] ELSE "NUL"

\* strncmp(pCode + cursor, "xy", 2u) == 0
startsWith(code, c, x, y) == At(code, c) = x /\ At(code, c + 1) = y

\* while(pCode[cursor] != '\n' && pCode[cursor] != '\0') cursor++
RECURSIVE skipLine(_, _)
skipLine(code, c) == IF At(code, c) \in {"\n", "NUL"} THEN c ELSE skipLine(code, c + 1)

\* preprocess, block comment: the cursor is moved to the "*/" that ends it
\* (or past the terminator: ub), the line breaks passed are pushed
RECURSIVE blockComment(_, _, _)
blockComment(code, c, out) ==
  IF startsWith(code, c, "*", "/") THEN [c |-> c, out |-> out, ub |-> FALSE]
  ELSE IF c >= Len(code) THEN [c |-> c, out |-> out, ub |-> TRUE]
  ELSE blockComment(code, c + 1,
         IF At(code, c + 1) = "\n" THEN Append(out, [ch |-> "\n", from |-> c + 1]) ELSE out)

\* preprocess, the loop over the code: out holds the characters pushed,
\* each with the position it was read from
RECURSIVE preprocessLoop(_, _, _)
preprocessLoop(code, c, out) ==
  IF c >= Len(code) THEN [out |-> out, ub |-> FALSE]
  ELSE IF startsWith(code, c, "/", "*") THEN
    Bind([b \in {blockComment(code, c, out)} |->
      IF b.ub THEN [out |-> b.out, ub |-> TRUE] ELSE preprocessLoop(code, b.c, b.out)])
  ELSE
    Bind([c2 \in {IF startsWith(code, c, "/", "/") \/ At(code, c) = "#"
                  THEN skipLine(code, c) ELSE c} |->
      preprocessLoop(code, c2 + 1, Append(out, [ch |-> At(code, c2), from |-> c2]))])

\* Environment::preprocess: [out, ub]; back() of an empty string is undefined
preprocess(code) ==
  Bind([r \in {preprocessLoop(code, 0, <<>>)} |->
    IF r.out = <<>> THEN [out |-> <<[ch |-> "\n", from |-> Len(code)]>>, ub |-> TRUE]
    ELSE IF r.out[Len(r.out)].ch # "\n"
    THEN [out |-> Append(r.out, [ch |-> "\n", from |-> Len(code)]), ub |-> r.ub]
    ELSE r])

\* tokenize, identifier: do cursor++ while(isalnum(*cursor) || *cursor == '_')
RECURSIVE identifierEnd(_, _)
identifierEnd(code, c) ==
  IF At(code, c) \in {"a", "d", "o", "_"} THEN identifierEnd(code, c + 1) ELSE c

\* tokenize, the token that starts with the characters x y at the cursor: its
\* kind and its length.  strncmp(token.mStart, entry, 2u) == 0 holds for a
\* two-character entry of the table and for a one-character entry that the
\* terminator follows.  A keyword is matched by
\* strncmp(token.mStart, kCflatKeywords[i], keywordLength) == 0; of the
\* keywords, the letters of the texts spell `do` only.
tokenAt(code, c, x, y) ==
  IF \/ <<x, y>> \in {<<"-", ">">>, <<":", ":">>}
     \/ x \in {".", ",", ":", ";", "(", ")", "{", "}", "[", "]"} /\ y = "NUL"
  THEN [t |-> "Punctuation", n |-> 2]
  ELSE IF \/ <<x, y>> \in {<<"+", "+">>, <<"-", "-">>, <<"+", "=">>, <<"-", "=">>,
                           <<"*", "=">>, <<"/", "=">>, <<"=", "=">>, <<"!", "=">>,
                           <<">", "=">>, <<"<", "=">>, <<"&", "&">>, <<"|", "|">>}
          \/ x \in {"+", "-", "*", "/", "!", "=", ">", "<", "&", "|", "~", "^"} /\ y = "NUL"
  THEN [t |-> "Operator", n |-> 2]
  ELSE IF x \in {".", ",", ":", ";", "(", ")", "{", "}", "[", "]"}
  THEN [t |-> "Punctuation", n |-> 1]
  ELSE IF x \in {"+", "-", "*", "/", "!", "=", ">", "<", "&", "|", "~", "^"}
  THEN [t |-> "Operator", n |-> 1]
  ELSE IF startsWith(code, c, "d", "o")
  THEN [t |-> "Keyword", n |-> 2]
  ELSE [t |-> "Identifier", n |-> identifierEnd(code, c + 1) - c]

\* Environment::tokenize on the characters of mPreprocessedCode, a "NUL"
\* among which ends the loop as the terminator does: [tokens, ub]
RECURSIVE tokenizeLoop(_, _, _, _)
tokenizeLoop(code, c, line, tokens) ==
  IF c > Len(code) THEN [tokens |-> tokens, ub |-> TRUE]
  ELSE IF At(code, c) = "NUL" THEN [tokens |-> tokens, ub |-> FALSE]
  ELSE IF At(code, c) = " " THEN tokenizeLoop(code, c + 1, line, tokens)
  ELSE IF At(code, c) = "\n" THEN tokenizeLoop(code, c + 1, line + 1, tokens)
  ELSE Bind([k \in {tokenAt(code, c, At(code, c), At(code, c + 1))} |->
         tokenizeLoop(code, c + k.n, line,
           Append(tokens, [t |-> k.t, s |-> [j \in 1..k.n |-> At(code, c + j - 1)],
                           l |-> line]))])

\* preprocess and tokenize of load, applied to a text
lex(head, tail, code) ==
  Bind([pp \in {preprocess(code)} |->
  Bind([tk \in {tokenizeLoop([k \in 1..Len(pp.out) |-> pp.out[k].ch], 0, 1, <<>>)} |->
    [head |-> head, tail |-> tail, code |-> code, out |-> pp.out,
     ub |-> pp.ub \/ tk.ub, tokens |-> tk.tokens, done |-> TRUE]])])

\* the texts of at most MaxText characters
InitLex ==
  /\ mInstances = <<>>
  /\ mFunctions = <<>>
  /\ mPrograms = <<>>
  /\ mExecutionContext = [scope |-> 0, err |-> NoError, ret |-> UninitValue]
  /\ mErrorMessage = NoError
  /\ garbage = 0
  /\ \E n \in 0..MaxText : \E code \in [1..n -> {"a", ";", "/", "*", "#", "\n"}] :
        last = [head |-> code, tail |-> <<>>, code |-> code, out |-> <<>>, ub |-> FALSE,
                tokens |-> <<>>, done |-> FALSE]
  /\ prev = NoLoad
  /\ loads = 0

\* the text as it is (no tail), or the text, a line break and a tail
Lex(tail) ==
  /\ loads = 0
  /\ last' = lex(last.head, tail,
                 IF tail = <<>> THEN last.head ELSE last.head \o <<"\n">> \o tail)
  /\ loads' = 1
  /\ UNCHANGED <<mInstances, mFunctions, mPrograms, mExecutionContext, mErrorMessage,
                 garbage, prev>>

NextLex == \E tail \in {<<>>, <<"a">>, <<";", "\n", "a">>} : Lex(tail)

SpecLex == InitLex /\ [][NextLex]_vars

\* the texts of at most MaxText letters and blanks
InitWords ==
  /\ mInstances = <<>>
  /\ mFunctions = <<>>
  /\ mPrograms = <<>>
  /\ mExecutionContext = [scope |-> 0, err |-> NoError, ret |-> UninitValue]
  /\ mErrorMessage = NoError
  /\ garbage = 0
  /\ \E n \in 0..MaxText : \E code \in [1..n -> {"a", "d", "o", " "}] :
        last = [head |-> code, tail |-> <<>>, code |-> code, out |-> <<>>, ub |-> FALSE,
                tokens |-> <<>>, done |-> FALSE]
  /\ prev = NoLoad
  /\ loads = 0

SpecWords == InitWords /\ [][NextLex]_vars

(***************************************************************************)
(* Properties                                                              *)
(***************************************************************************)
\* what the host can observe of an Instance vector
Observed(inst) ==
  [i \in 1..Len(inst) |->
     [name |-> inst[i].name, tu |-> inst[i].tu, cells |-> inst[i].value.cells]]

HasVariable(name) == \E i \in 1..Len(mInstances) : mInstances[i].name = name

VariableValue(name) ==
  mInstances[CHOOSE i \in 1..Len(mInstances) :
               mInstances[i].name = name /\
               \A j \in (i + 1)..Len(mInstances) : mInstances[j].name # name].value.cells[1]

Apply(op, a, b) ==
  CASE op = "+" -> a + b
    [] op = "-" -> a - b
    [] op = "*" -> a * b
    [] op = "/" -> TruncDiv(a, b)

\* C1: a program that loaded with true, loaded again under the same name with
\* no host call in between, returns true again and leaves the same variables
\* holding the same values.
C1_ReloadRoundTrip ==
  (loads = 2 /\ prev.p # "" /\ last.p = prev.p /\ prev.ret /\ ~prev.hang /\
   ~(\E i \in 1..Len(last.pre) : last.pre[i].name = "h"))
    => (last.ret /\ Observed(mInstances) = Observed(last.pre))

C3_ScopeHygiene ==
  ~last.hang => (~last.leak /\ \A i \in 1..Len(mInstances) : mInstances[i].scope = 0)

\* a load whose loop body was left by break and by continue, followed by a
\* load that returned from a function called with an argument
C3_Witness ==
  /\ prev.p = "LoopJump" /\ {"break", "continue"} \subseteq prev.exits
  /\ last.p = "Call" /\ "return" \in last.exits
  /\ ~last.leak /\ ~prev.leak
  /\ \A i \in 1..Len(mInstances) : mInstances[i].scope = 0

\* C4: once a runtime error is raised no further statement is executed and
\* load returns false.
C4_ShortCircuit == last.rerrs # <<>> => (~last.ret /\ ~last.ranAfter)

\* C5: when load returns false, getErrorMessage is the first error raised
\* during that load.
C5_FirstErrorReported ==
  (loads >= 1 /\ ~last.ret /\ ~last.hang /\ (last.cerrs # <<>> \/ last.rerrs # <<>>))
    => mErrorMessage = (IF last.cerrs # <<>> THEN last.cerrs[1] ELSE last.rerrs[1].msg)

\* C6: when load returns false, the Instance vector holds no Instance that
\* the failed program registered while it was parsed or executed.
C6_NoLeakOnFailedLoad ==
  (loads >= 1 /\ ~last.ret /\ ~last.hang)
    => \A i \in 1..Len(mInstances) : mInstances[i].gen # loads

\* C7: every division by zero raised makes load return false with a
\* DivisionByZero message carrying the line of the statement that holds the
\* division.
C7_DivisionByZeroLine ==
  \A k \in 1..Len(last.rerrs) :
    last.rerrs[k].msg.code = "DivisionByZero"
      => (~last.ret /\ last.rerrs[k].msg.line = last.rerrs[k].at)

\* C8: p->val with p null, read or written, makes load return false with the
\* message null pointer access ('p') of the line of the access.
C8_NullPointerAccess ==
  (loads = 1 /\ last.p \in {"NullRhs", "NullLhs"})
    => (~last.ret /\ mErrorMessage = Message("Runtime", 2, "NullPointerAccess", "p"))

\* C9: a declaration whose name is that of an Instance of the same scope
\* level throws VariableRedefinition('name'), registers no second Instance,
\* and load returns false.
C9_Redefinition ==
  \A k \in 1..Len(last.decls) :
    last.decls[k].sameScope
      => /\ last.decls[k].thrown =
              <<Message("Compile", last.decls[k].line, "VariableRedefinition", last.decls[k].id)>>
         /\ ~last.decls[k].registered
         /\ ~last.ret

\* int a = 1; int a = 2; has been loaded: false, and one Instance named a
C9_Witness ==
  /\ last.p = "Redef" /\ loads = 1 /\ ~last.ret
  /\ \E k \in 1..Len(last.decls) : last.decls[k].sameScope /\ last.decls[k].id = "a"
  /\ Cardinality({i \in 1..Len(mInstances) : mInstances[i].name = "a"}) = 1

\* the declared type of the k-th receiver of a chain as written
RECURSIVE ReceiverType(_, _)
ReceiverType(ev, k) ==
  IF k = 1 THEN ev.tu0
  ELSE LET t == ReceiverType(ev, k - 1)
           ms == IF t.base \in DOMAIN Types THEN Types[t.base].members ELSE <<>>
           hit == {m \in 1..Len(ms) : ms[m].name = ev.text[k].id}
       IN IF hit = {} THEN NullTypeUsage ELSE ms[CHOOSE m \in hit : TRUE].tu

OperatorViolation(tu, op) ==
  IF op = "." /\ tu.ptr > 0 THEN "InvalidMemberAccessOperatorPtr"
  ELSE IF op = "->" /\ tu.ptr = 0 THEN "InvalidMemberAccessOperatorNonPtr"
  ELSE ""

FirstViolation(ev, k) ==
  /\ \A j \in 1..k : ReceiverType(ev, j).base # NoType
  /\ OperatorViolation(ReceiverType(ev, k), ev.text[k].op) # ""
  /\ \A j \in 1..(k - 1) : OperatorViolation(ReceiverType(ev, j), ev.text[j].op) = ""

\* C10: in a chain the first '.' on a pointer receiver throws
\* InvalidMemberAccessOperatorPtr, the first '->' on a non-pointer receiver
\* throws InvalidMemberAccessOperatorNonPtr, at parse time, naming the
\* receiver, and no identifier of the chain after it is parsed.
C10_MemberAccessOperator ==
  \A n \in 1..Len(last.log) :
    LET ev == last.log[n]
    IN \A k \in 1..Len(ev.text) :
         FirstViolation(ev, k)
           => /\ ev.ids = [j \in 1..k |-> ev.text[j].id]
              /\ Len(ev.thrown) = 1
              /\ ev.thrown[1].kind = "Compile"
              /\ ev.thrown[1].code = OperatorViolation(ReceiverType(ev, k), ev.text[k].op)
              /\ ev.thrown[1].arg = ev.text[k].id
              /\ last.rerrs = <<>>
              /\ ~last.ret

\* n.next.val = 1 has been parsed: the chain stopped at next
C10_Witness ==
  /\ last.p = "ChainPtr" /\ ~last.ret
  /\ \E n \in 1..Len(last.log) :
       /\ Len(last.log[n].text) = 3
       /\ FirstViolation(last.log[n], 2)
       /\ last.log[n].ids = <<"n", "next">>

\* the text loaded last under SpecControl
LastControl(p, n) == loads >= 1 /\ last.p = [prog |-> p, n |-> n]

\* C11: `for (int i = 0; i < 5; i = i + 1) { if (i == 3) break; }` loads
\* without error, the body runs for i = 0..3 only (four iterations, the
\* loop stops where i == 3), and no Instance named i is left afterwards
C11_ForBreak ==
  LastControl("ForBreak", 3) =>
    /\ last.ret /\ ~last.ub /\ ~last.hang
    /\ mErrorMessage = NoError
    /\ last.iters = 4
    /\ ~HasVariable("i")

\* C12: a While re-evaluates its condition before every iteration and ends
\* when it is false: `int i = 0; while (i < n) { i = i + 1; }`, loaded under
\* a name not loaded before and where no Instance i exists, runs its body
\* exactly n times, load returns true and the host observes i == n
C12_WhileTerminates ==
  \A n \in 0..MaxLit :
    (LastControl("WhileCount", n) /\ last.fresh /\ retrieveInstance(last.pre, "i") = 0) =>
      /\ last.ret /\ ~last.hang /\ ~last.ub
      /\ last.iters = n
      /\ HasVariable("i") /\ VariableValue("i") = n

C12_Witness ==
  /\ LastControl("WhileCount", 3) /\ last.fresh /\ retrieveInstance(last.pre, "i") = 0
  /\ last.ret /\ last.iters = 3 /\ VariableValue("i") = 3

\* C13: for every primitive type T and value v of T, after a load of
\* `T y = 0; { T x = v; y = x; }` on a fresh Environment the host observes
\* y == v
C13_BlockCopy ==
  loads = 1 => (last.ret /\ HasVariable("y") /\ VariableValue("y") = last.p.v.val)

\* the number of line breaks among the first k characters of a text
RECURSIVE Breaks(_, _)
Breaks(text, k) == IF k = 0 THEN 0 ELSE Breaks(text, k - 1) + (IF text[k] = "\n" THEN 1 ELSE 0)

LexedText == loads = 1 /\ last.done /\ last.tail = <<>>

\* the characters of an output of preprocess
Chars(out) == [k \in 1..Len(out) |-> out[k].ch]

\* C14: preprocess keeps the line breaks of every source text: it reads no
\* character outside the text, the output ends with a line break, holds as
\* many line breaks as the text (one more if the text does not end with one),
\* and every character it copies has as many line breaks before it in the
\* output as in the text, so that tokenize gives it its original line.
C14_LineBreaks ==
  LexedText =>
    /\ ~last.ub
    /\ last.out[Len(last.out)].ch = "\n"
    /\ Breaks(Chars(last.out), Len(last.out)) =
         Breaks(last.code, Len(last.code))
           + (IF last.code # <<>> /\ last.code[Len(last.code)] = "\n" THEN 0 ELSE 1)
    /\ \A k \in 1..Len(last.out) :
         last.out[k].from < Len(last.code) =>
           Breaks(Chars(last.out), k - 1) = Breaks(last.code, last.out[k].from)

\* the end of the block comment whose text starts at position c (the position
\* after its "*/"), or -1 if it is not terminated
RECURSIVE CommentEnd(_, _)
CommentEnd(text, c) ==
  IF c + 1 >= Len(text) THEN -1
  ELSE IF startsWith(text, c, "*", "/") THEN c + 2
  ELSE CommentEnd(text, c + 1)

\* a text without its comments and directives: what is left of the text from
\* position c on; the line breaks inside a block comment stay
RECURSIVE Stripped(_, _)
Stripped(text, c) ==
  IF c >= Len(text) THEN <<>>
  ELSE IF startsWith(text, c, "/", "/") \/ At(text, c) = "#" THEN Stripped(text, skipLine(text, c))
  ELSE IF startsWith(text, c, "/", "*") THEN
    IF CommentEnd(text, c + 2) = -1 THEN <<>>
    ELSE SelectSeq(SubSeq(text, c + 1, CommentEnd(text, c + 2)), LAMBDA ch : ch = "\n")
           \o Stripped(text, CommentEnd(text, c + 2))
  ELSE <<At(text, c)>> \o Stripped(text, c + 1)

\* every block comment of the text is terminated
RECURSIVE Terminated(_, _)
Terminated(text, c) ==
  IF c >= Len(text) THEN TRUE
  ELSE IF startsWith(text, c, "/", "/") \/ At(text, c) = "#" THEN Terminated(text, skipLine(text, c))
  ELSE IF startsWith(text, c, "/", "*") THEN
    CommentEnd(text, c + 2) # -1 /\ Terminated(text, CommentEnd(text, c + 2))
  ELSE Terminated(text, c + 1)

\* C15: for a text whose comments are terminated, the output of preprocess is
\* the text without its comments (delimiters included, the line breaks inside
\* a block comment kept) and without its directives, every other character
\* copied in order, with at most the ensured line break after it.
C15_CommentsElided ==
  (LexedText /\ Terminated(last.code, 0)) =>
    Chars(last.out) \in {Stripped(last.code, 0), Append(Stripped(last.code, 0), "\n")}

\* the tokens of a text, and whether they were obtained without undefined
\* behaviour
TokensOf(text) == lex(text, <<>>, text).tokens

Complete(text) == ~lex(text, <<>>, text).ub

\* C16: for texts A and B that tokenize completely, the tokens of A, a line
\* break and B are the tokens of A followed by the tokens of B, with the same
\* kinds and texts, the lines of B's tokens moved by the line breaks of A
\* plus one.
C16_Concatenation ==
  (loads = 1 /\ last.done /\ last.tail # <<>> /\ Complete(last.head) /\ Complete(last.tail)) =>
    /\ ~last.ub
    /\ last.tokens =
         TokensOf(last.head)
           \o [k \in 1..Len(TokensOf(last.tail)) |->
                 [TokensOf(last.tail)[k] EXCEPT
                    !.l = @ + Breaks(last.head, Len(last.head)) + 1]]


\* C17: a load keeps the variables the host registered: the variable h set
\* with setVariable before a load is retrievable after it and holds the
\* host's value (no catalogue program assigns h).
C17_HostVariableKept ==
  [][(loads' = loads + 1 /\ retrieveInstance(mInstances, "h") # 0)
       => /\ retrieveInstance(mInstances', "h") # 0
          /\ mInstances'[retrieveInstance(mInstances', "h")].value.cells =
               mInstances[retrieveInstance(mInstances, "h")].value.cells]_vars

\* C18: a runtime error of one load does not affect a later load: after a
\* load that returned false with a runtime error, the load of the error-free
\* program Arith executes all its statements (c == 2 + 3 * 2) and returns
\* true with no error message.
C18_ErrorDoesNotLinger ==
  (loads = 2 /\ prev.p # "" /\ ~prev.ret /\ ~prev.hang /\ prev.cerrs = <<>> /\
   prev.rerrs # <<>> /\ last.p = "Arith")
    => /\ last.ret
       /\ mErrorMessage = NoError
       /\ HasVariable("c") /\ VariableValue("c") = 8

\* C19: break and continue act once: when a For has finished, also with a
\* continue executed in its last iteration, the jump is neither Break nor
\* Continue and the statements after the loop in the enclosing block are
\* executed: `int a = 0; { for (int k = 0; k < n; k++) continue; a = 1; }`
\* loads with true and leaves a == 1, for every n.
C19_JumpIsOneShot ==
  \A n \in 0..MaxLit :
    LastControl("ForContinue", n)
      => /\ last.ret
         /\ HasVariable("a") /\ VariableValue("a") = 1

\* C20: after a return inside a script function no further statement of the
\* body is executed, a While around it runs no further iteration, and the
\* caller gets the returned value: with `int g = 0;` the call of
\* `int f() { while (g < n) { g++; return 2; } }` for n >= 1 returns 2 after
\* one g++, so that `int r = f();` leaves r == 2 and g == 1.
C20_ReturnEndsBody ==
  \A n \in 1..MaxLit :
    (LastControl("WhileReturn", n) /\ retrieveInstance(last.pre, "g") = 0)
      => /\ last.ret
         /\ HasVariable("r") /\ VariableValue("r") = 2
         /\ HasVariable("g") /\ VariableValue("g") = 1

\* the script p has been loaded with the parameters a and b
LastScript(p, a, b) == loads = 1 /\ last.p = [prog |-> p, a |-> a, b |-> b]

\* C21: an assignment x = v writes the storage of x only, for every pair of
\* a target type and a right-hand-side type: after `T x = 0; int w = 2;
\* U v = 1; x = v;` no byte outside the buffer of x was written and w and v
\* hold what they held.
C21_AssignmentFrame ==
  \A a \in 0..MaxLit, b \in 0..MaxLit :
    LastScript("Assign", a, b)
      => /\ last.ret /\ ~last.ub
         /\ HasVariable("w") /\ VariableValue("w") = 2
         /\ HasVariable("v") /\ VariableValue("v") = 1

\* C22: a call never executes a Statement of a destroyed Program: also after
\* a program that declares a function was loaded again under the same name,
\* the body a call executes belongs to the Program as it is now.
C22_CallExecutesLiveBody == loads >= 1 => ~last.staleCall

\* C23: a declaration in an inner scope may take the name of an Instance of
\* an outer scope: `int r = 0; int a = A; { int a = B; r = a; }` is accepted,
\* inside the block the name a is the inner Instance (r == B), and after the
\* block it is the outer one, unchanged (a == A).
C23_Shadowing ==
  \A a \in 0..MaxLit, b \in 0..MaxLit :
    LastScript("Shadow", a, b)
      => /\ last.cerrs = <<>> /\ last.ret
         /\ HasVariable("r") /\ VariableValue("r") = b
         /\ HasVariable("a") /\ VariableValue("a") = a

\* the Instances of a vector with a scope level below L, in their order
Below(inst, L) == SelectSeq(inst, LAMBDA i : i.scope < L)

C25_ArgumentMarshalling ==
  \A a \in 0..MaxLit, b \in 0..MaxLit :
    /\ LastScript("ByValue", a, b)
         => /\ last.ret /\ ~last.ub
            /\ HasVariable("a") /\ VariableValue("a") = a
            /\ HasVariable("r") /\ VariableValue("r") = b
    /\ LastScript("ByRef", a, b)
         => /\ last.ret /\ ~last.ub
            /\ HasVariable("r") /\ VariableValue("r") = 0
            /\ HasVariable("a") /\ VariableValue("a") = b

\* C26: && and || evaluate both operands, each once and the left before the
\* right, whatever the left yields: after `r = (L + h()) OP f();`, where h
\* adds 1 to g and returns 0 and f doubles g and returns B, g holds 2 and r
\* holds the conjunction (disjunction) of L # 0 and B # 0.
C26_NoShortCircuit ==
  \A a \in 0..MaxLit, b \in 0..MaxLit :
    LastScript("Logic", a, b)
      => /\ last.ret /\ ~last.ub /\ last.rerrs = <<>>
         /\ HasVariable("g") /\ VariableValue("g") = 2
         /\ HasVariable("r")
         /\ VariableValue("r") = IF (IF a < 2 THEN a % 2 # 0 /\ b # 0 ELSE a % 2 # 0 \/ b # 0)
                                 THEN 1 ELSE 0

\* the left operand of && was 0 and the one of || was not, and the right
\* operand ran all the same
C26_Witness ==
  /\ \E b \in 1..MaxLit : LastScript("Logic", 0, b) \/ LastScript("Logic", 3, b)
  /\ ~last.ub /\ HasVariable("g") /\ VariableValue("g") = 2

\* the type of the Value the variable holds
ValueType(name) ==
  mInstances[CHOOSE i \in 1..Len(mInstances) : mInstances[i].name = name].value.tu.base

\* n as a two's complement integer of size bytes (4-byte results of the
\* scripts are in range)
Truncated(n, size) ==
  IF size = 1 THEN ((n + 128) % 256) - 128
  ELSE IF size = 2 THEN ((n + 32768) % 65536) - 32768
  ELSE n

\* the quotient rounded toward zero
Quotient(n, m) == IF n < 0 THEN -((-n) \div m) ELSE n \div m

\* what `T x = 6; T y = Y; p = x * x; q = p * y; d = q / y; s = q - p;
\* u = q + q; w = q * q; c = q < y; e = q && y` yields for a type T of size
\* bytes, q being the narrowed 36 * Y
ArithResults(T, size, y, q) ==
  /\ \A v \in {"p", "q", "d", "s", "u", "w", "c", "e"} : HasVariable(v)
  /\ \A v \in {"p", "q", "d", "s", "u", "w"} : ValueType(v) = T
  /\ VariableValue("p") = 36
  /\ VariableValue("q") = q
  /\ VariableValue("d") = Truncated(Quotient(q, y), size)
  /\ VariableValue("s") = Truncated(q - 36, size)
  /\ VariableValue("u") = Truncated(q + q, size)
  /\ VariableValue("w") = Truncated(q * q, size)
  /\ ValueType("c") = "bool" /\ VariableValue("c") = (IF q < y THEN 1 ELSE 0)
  /\ ValueType("e") = "bool" /\ VariableValue("e") = 1

C28_CompoundAssignment ==
  \A a \in 0..MaxLit, b \in 0..MaxLit :
    LastScript("Compound", a, b)
      => /\ last.ret /\ ~last.ub /\ last.cerrs = <<>> /\ last.rerrs = <<>>
         /\ mErrorMessage = NoError
         /\ HasVariable("g") /\ VariableValue("g") = 1
         /\ HasVariable("x") /\ VariableValue("x") = 2
         /\ HasVariable("w") /\ VariableValue("w") = 3

\* `x /= f();` with f returning 0 has been executed: f has run and x is 2
C28_Witness ==
  /\ LastScript("Compound", 0, 3)
  /\ ~last.ub /\ last.cerrs = <<>> /\ last.rerrs = <<>>
  /\ HasVariable("g") /\ VariableValue("g") = 1
  /\ HasVariable("x") /\ VariableValue("x") = 2

\* C29: a chain whose every `.` follows a non-pointer and whose every `->`
\* follows a pointer raises no InvalidMemberAccessOperator error, also when
\* its last member is a pointer: after `Node n; Node* p = &n;` none of
\* `n.val = 1;`, `p->val = 1;`, `n.next = nullptr;`, `p->next = nullptr;`,
\* `n.next->val = 1;`, `p->next->val = 1;` raises one.
C29_WellTypedChain ==
  \A a \in 0..MaxLit, b \in 0..MaxLit :
    LastScript("Chain", a, b)
      => \A k \in 1..Len(last.cerrs) :
           last.cerrs[k].code \notin {"InvalidMemberAccessOperatorPtr",
                                      "InvalidMemberAccessOperatorNonPtr"}

\* the maximal runs of letters of a text from position i on, after the
\* letters run
RECURSIVE WordRuns(_, _, _)
WordRuns(code, i, run) ==
  IF i > Len(code) THEN (IF run = <<>> THEN <<>> ELSE <<run>>)
  ELSE IF code[i] \in {"a", "d", "o"} THEN WordRuns(code, i + 1, Append(run, code[i]))
  ELSE (IF run = <<>> THEN <<>> ELSE <<run>>) \o WordRuns(code, i + 1, <<>>)

\* the Keyword and Identifier tokens, in order
WordTokens == SelectSeq(last.tokens, LAMBDA t : t.t \in {"Keyword", "Identifier"})

\* C30: the lexer emits one token for each maximal run of letters, a Keyword
\* when the run is a keyword and an Identifier otherwise: the Keyword and
\* Identifier tokens of a text are its runs of letters, in order, and only
\* the run `do` is a Keyword.
C30_WholeWordKeywords ==
  last.done
    => /\ [k \in 1..Len(WordTokens) |-> WordTokens[k].s] = WordRuns(last.code, 1, <<>>)
       /\ \A k \in 1..Len(WordTokens) :
            (WordTokens[k].t = "Keyword") = (WordTokens[k].s = <<"d", "o">>)

====
